---- MODULE Spec2Model ----
(***************************************************************************)
(* Model of the flickmouse throw/catch engine (App.tsx, the version with   *)
(* curveball support): the koota entity "watchEntity", the module-level    *)
(* debounce clock, the setTimeout queue, and the handlers that act on      *)
(* them (tap, probability, armdirectionchanged, the deferred lookahead     *)
(* callback, the useFrame tick, the settings inputs).                      *)
(*                                                                         *)
(* Numbers.  Time is in milliseconds.  Directions, velocities and          *)
(* positions are fixed-point integers with FP subdivisions per unit        *)
(* (a direction component 1.0 is FP, a velocity of 500 px/s is 500*FP).    *)
(* Friction factors are in hundredths, angles in milliradians.             *)
(***************************************************************************)
EXTENDS Integers, Sequences, FiniteSets, TLC

\* ------------------------------------------------------------------ constants
ARM_DIRECTION_HISTORY_MAX_AGE_MS == 200
TAP_ACTION_DEBOUNCE_MS == 100
MIN_SEGMENTS_FOR_ENDING_CURVE == 2
BOUNDARY_PADDING == 50
\* px/s
MIN_THROW_SPEED_THRESHOLD == 5
\* px/s
FRICTION_TRANSITION_MAX_SPEED == 300
\* 1.4 in hundredths
FRICTION_FACTOR_HIGH_SPEED == 140
\* 6.0 in hundredths
FRICTION_FACTOR_LOW_SPEED == 600
\* 0.8 in hundredths
ANGULAR_FRICTION_CONSTANT == 80
\* 0.02 rad/s in milliradians per second
MIN_CONTINUING_ANGULAR_VELOCITY == 20
FLICK_SENSITIVITY_EXPONENT == 3
\* -1.8 in tenths
FLICK_SENSITIVITY_UI_QUADRATIC_A == -18
\* 2.8 in tenths
FLICK_SENSITIVITY_UI_QUADRATIC_B == 28
\* segment duration floor 0.02 s, in ms
MIN_SEGMENT_DURATION_MS == 20
\* terminal segment duration 0.2 s, in ms
LAST_SEGMENT_DURATION_MS == 200

\* --------------------------------------------------------------------- bounds
\* fixed-point subdivisions per unit
FP == 12
\* Date.now() at the first modelled event
StartTime == 100
\* the clock stops advancing here
MaxTime == 250
\* a setTimeout callback runs at most this long after its due time
MaxTimerLate == 20
\* samples retained in ArmDirectionHistory at any time
MaxSamples == 2
\* window.innerWidth and window.innerHeight, px
InnerWidth == 200
InnerHeight == 200

TimeSteps == {50}
TickDeltasMs == {200}
SampleDirs == {[dx |-> FP, dy |-> 0], [dx |-> 0, dy |-> 0]}
ThrowWindowChoices == {50}
LookaheadChoices == {0, 30, 100}
ThrowStrengthChoices == {900}
\* FlickSensitivity slider, in tenths
FlickSensitivityChoices == {0, 5}
\* tap probability of a probability event, in tenths
TapProbabilityChoices == {0, 10}

VARIABLES
  watchEntity,             \* the koota entity: one field per trait
  lastTapActionTimestamp,  \* module-level debounce clock
  timers,                  \* outstanding setTimeout callbacks
  now,                     \* Date.now()
  last                     \* the last tap, flick or timer callback and what it decided

vars == <<watchEntity, lastTapActionTimestamp, timers, now, last>>

\* ------------------------------------------------------------------- helpers
Abs(a) == IF a < 0 THEN 0 - a ELSE a
Max(a, b) == IF a >= b THEN a ELSE b
Min(a, b) == IF a <= b THEN a ELSE b
\* division rounding toward zero
TruncDiv(a, b) == IF a >= 0 THEN a \div b ELSE 0 - ((0 - a) \div b)

RECURSIVE SqrtSearch(_, _, _)
SqrtSearch(n, lo, hi) ==
  IF lo >= hi THEN lo
  ELSE LET mid == (lo + hi + 1) \div 2
       IN IF mid * mid <= n THEN SqrtSearch(n, mid, hi) ELSE SqrtSearch(n, lo, mid - 1)
\* Math.sqrt on fixed-point magnitudes (integer part)
Sqrt(n) == SqrtSearch(n, 0, 46340)

RECURSIVE SumDx(_)
SumDx(s) == IF s = <<>> THEN 0 ELSE Head(s).dx + SumDx(Tail(s))
RECURSIVE SumDy(_)
SumDy(s) == IF s = <<>> THEN 0 ELSE Head(s).dy + SumDy(Tail(s))

RECURSIVE FilterSeq(_, _, _)
\* Array.prototype.filter with the predicate lo <= timestamp <= hi
FilterSeq(s, lo, hi) ==
  IF s = <<>> THEN <<>>
  ELSE IF Head(s).timestamp >= lo /\ Head(s).timestamp <= hi
       THEN <<Head(s)>> \o FilterSeq(Tail(s), lo, hi)
       ELSE FilterSeq(Tail(s), lo, hi)

ZeroVec == [x |-> 0, y |-> 0]
EmptyPlan == [segments |-> <<>>, currentIndex |-> 0, activeTimeInSegment |-> 0,
              endingAngularVelocity |-> 0]
NullArmDirection == [isNull |-> TRUE, x |-> 0, y |-> 0]

\* Math.PI in milliradians
PI_MRAD == 3142

RECURSIVE InsertByTimestamp(_, _)
InsertByTimestamp(s, e) ==
  IF s = <<>> THEN <<e>>
  ELSE IF Head(s).timestamp <= e.timestamp
       THEN <<Head(s)>> \o InsertByTimestamp(Tail(s), e)
       ELSE <<e>> \o s
RECURSIVE SortByTimestamp(_)
\* [...recentSamples].sort((a, b) => a.timestamp - b.timestamp), stable
SortByTimestamp(s) ==
  IF s = <<>> THEN <<>>
  ELSE InsertByTimestamp(SortByTimestamp(SubSeq(s, 1, Len(s) - 1)), s[Len(s)])

\* Math.atan2(dy, dx) in milliradians; exact on the axes and the diagonals,
\* the nearest diagonal elsewhere
Atan2(dy, dx) ==
  IF dy = 0 THEN (IF dx >= 0 THEN 0 ELSE PI_MRAD)
  ELSE IF dx = 0 THEN (IF dy > 0 THEN PI_MRAD \div 2 ELSE 0 - (PI_MRAD \div 2))
  ELSE IF dx > 0 THEN (IF dy > 0 THEN PI_MRAD \div 4 ELSE 0 - (PI_MRAD \div 4))
  ELSE (IF dy > 0 THEN (3 * PI_MRAD) \div 4 ELSE 0 - ((3 * PI_MRAD) \div 4))

RECURSIVE WrapAngle(_)
\* while (angleDiff > PI) angleDiff -= 2 PI; while (angleDiff < -PI) angleDiff += 2 PI
WrapAngle(a) ==
  IF a > PI_MRAD THEN WrapAngle(a - 2 * PI_MRAD)
  ELSE IF a < 0 - PI_MRAD THEN WrapAngle(a + 2 * PI_MRAD)
  ELSE a

\* ---------------------------------------------------- executeActualThrowLogic
\* mutant: the window excludes its two end points
recentSamplesOfExclusive(w, tapTimestamp) ==
  FilterSeq(w.ArmDirectionHistory,
            tapTimestamp - w.ConfigurableThrowWindowMs + 1,
            tapTimestamp + w.ConfigurableLookaheadDelayMs - 1)

\* the samples of the history inside [tapTimestamp - window, tapTimestamp + lookahead]
recentSamplesOf(w, tapTimestamp) ==
  FilterSeq(w.ArmDirectionHistory,
            tapTimestamp - w.ConfigurableThrowWindowMs,
            tapTimestamp + w.ConfigurableLookaheadDelayMs)

\* mutant: the cached ArmDirection is preferred to the samples in the window
baseDirectionCachedFirst(w, recentSamples) ==
  IF ~w.ArmDirection.isNull
  THEN [ok |-> TRUE, x |-> w.ArmDirection.x, y |-> w.ArmDirection.y]
  ELSE IF Len(recentSamples) > 0
       THEN [ok |-> TRUE,
             x |-> TruncDiv(SumDx(recentSamples), Len(recentSamples)),
             y |-> TruncDiv(SumDy(recentSamples), Len(recentSamples))]
       ELSE [ok |-> FALSE, x |-> 0, y |-> 0]

\* mutant: a missing ArmDirection is read as the zero direction
baseDirectionWithoutNullCheck(w, recentSamples) ==
  IF Len(recentSamples) > 0
  THEN [ok |-> TRUE,
        x |-> TruncDiv(SumDx(recentSamples), Len(recentSamples)),
        y |-> TruncDiv(SumDy(recentSamples), Len(recentSamples))]
  ELSE [ok |-> TRUE, x |-> w.ArmDirection.x, y |-> w.ArmDirection.y]

\* mutant: the base direction without the cached ArmDirection
baseDirectionWithoutCache(w, recentSamples) ==
  IF Len(recentSamples) > 0
  THEN [ok |-> TRUE,
        x |-> TruncDiv(SumDx(recentSamples), Len(recentSamples)),
        y |-> TruncDiv(SumDy(recentSamples), Len(recentSamples))]
  ELSE [ok |-> FALSE, x |-> 0, y |-> 0]

\* base direction: the mean of the samples in the window, else the cached
\* ArmDirection; ok = FALSE when neither exists
baseDirection(w, recentSamples) ==
  IF Len(recentSamples) > 0
  THEN [ok |-> TRUE,
        x |-> TruncDiv(SumDx(recentSamples), Len(recentSamples)),
        y |-> TruncDiv(SumDy(recentSamples), Len(recentSamples))]
  ELSE IF ~w.ArmDirection.isNull
       THEN [ok |-> TRUE, x |-> w.ArmDirection.x, y |-> w.ArmDirection.y]
       ELSE [ok |-> FALSE, x |-> 0, y |-> 0]

RECURSIVE pathSegmentsFrom(_, _)
\* the loop over sortedSamples building pathSegments, from index i on
pathSegmentsFrom(sortedSamples, i) ==
  IF i > Len(sortedSamples) THEN <<>>
  ELSE LET currentSample == sortedSamples[i]
           mag == Sqrt(currentSample.dx * currentSample.dx + currentSample.dy * currentSample.dy)
           duration == IF i < Len(sortedSamples)
                       THEN Max(MIN_SEGMENT_DURATION_MS,
                                sortedSamples[i + 1].timestamp - currentSample.timestamp)
                       ELSE LAST_SEGMENT_DURATION_MS
       IN IF mag * 1000 > FP
          THEN <<[dx |-> TruncDiv(currentSample.dx * FP, mag),
                  dy |-> TruncDiv(currentSample.dy * FP, mag),
                  duration |-> duration]>> \o pathSegmentsFrom(sortedSamples, i + 1)
          ELSE pathSegmentsFrom(sortedSamples, i + 1)

RECURSIVE weightedAngularSumOfHeadings(_, _)
\* mutant: the heading of the second segment instead of the turn between the two
weightedAngularSumOfHeadings(pathSegments, n) ==
  IF n = 0 THEN 0
  ELSE LET seg2 == pathSegments[n + 1]
           relevantDuration == IF seg2.duration > 1 THEN seg2.duration ELSE MIN_SEGMENT_DURATION_MS
           currentAngularVelocity == TruncDiv(Atan2(seg2.dy, seg2.dx) * 1000, relevantDuration)
       IN currentAngularVelocity * n + weightedAngularSumOfHeadings(pathSegments, n - 1)

RECURSIVE weightedAngularSum(_, _)
\* weightedSumAngularVelocity over the pairs (i, i+1), i = 1 .. n (1-based)
weightedAngularSum(pathSegments, n) ==
  IF n = 0 THEN 0
  ELSE LET seg1 == pathSegments[n]
           seg2 == pathSegments[n + 1]
           angleDiff == WrapAngle(Atan2(seg2.dy, seg2.dx) - Atan2(seg1.dy, seg1.dx))
           relevantDuration == IF seg2.duration > 1 THEN seg2.duration ELSE MIN_SEGMENT_DURATION_MS
           currentAngularVelocity == TruncDiv(angleDiff * 1000, relevantDuration)
       IN currentAngularVelocity * n + weightedAngularSum(pathSegments, n - 1)

\* mutant: the exit spin needs two pairs of segments
endingAngularVelocityOfTwoPairs(pathSegments) ==
  IF Len(pathSegments) >= MIN_SEGMENTS_FOR_ENDING_CURVE + 1
  THEN LET pairs == Len(pathSegments) - 1
           sumOfWeights == (pairs * (pairs + 1)) \div 2
       IN TruncDiv(weightedAngularSum(pathSegments, pairs), sumOfWeights)
  ELSE 0

\* calculatedEndingAngularVelocity, milliradians per second
endingAngularVelocityOf(pathSegments) ==
  IF Len(pathSegments) >= MIN_SEGMENTS_FOR_ENDING_CURVE
  THEN LET pairs == Len(pathSegments) - 1
           sumOfWeights == (pairs * (pairs + 1)) \div 2
       IN IF pairs > 0 /\ sumOfWeights > 0
          THEN TruncDiv(weightedAngularSum(pathSegments, pairs), sumOfWeights)
          ELSE 0
  ELSE 0

\* mutant: a throw without a new plan keeps the plan of the throw before it
throwWithStalePlan(w, plan, spin, throwDx, throwDy) ==
  [w EXCEPT !.ThrowPathPlan = IF plan = EmptyPlan THEN @ ELSE plan,
            !.MouseAngularVelocityCurve = 0,
            !.MouseContinuingAngularVelocity = spin,
            !.MouseVelocity = [x |-> throwDx * w.ConfigurableThrowStrength,
                               y |-> throwDy * w.ConfigurableThrowStrength],
            !.IsThrown = TRUE]

\* mutant: the throw uses the default strength, not the configured one
throwWithDefaultStrength(w, plan, spin, throwDx, throwDy) ==
  [w EXCEPT !.ThrowPathPlan = plan,
            !.MouseAngularVelocityCurve = 0,
            !.MouseContinuingAngularVelocity = spin,
            !.MouseVelocity = [x |-> throwDx * 900, y |-> throwDy * 900],
            !.IsThrown = TRUE]

\* the throw: velocity = direction * strength, IsThrown = true
throwWith(w, plan, spin, throwDx, throwDy) ==
  [w EXCEPT !.ThrowPathPlan = plan,
            !.MouseAngularVelocityCurve = 0,
            !.MouseContinuingAngularVelocity = spin,
            !.MouseVelocity = [x |-> throwDx * w.ConfigurableThrowStrength,
                               y |-> throwDy * w.ConfigurableThrowStrength],
            !.IsThrown = TRUE]

\* mutant: the race guard never triggers
alreadyThrownIgnored(w) == FALSE

\* the race guard: IsThrown is already true
alreadyThrown(w) == w.IsThrown

\* mutant: in curveball mode the plan is stored and the throw goes along the
\* base direction
executeActualThrowLogicAlongBase(w, tapTimestamp) ==
  IF alreadyThrown(w) THEN w
  ELSE LET recentSamples == recentSamplesOf(w, tapTimestamp)
           base == baseDirection(w, recentSamples)
       IN IF ~base.ok THEN [w EXCEPT !.IsThrown = FALSE]
          ELSE IF w.EnableCurveball /\ Len(recentSamples) > 0
          THEN LET pathSegments == pathSegmentsFrom(SortByTimestamp(recentSamples), 1)
               IN IF Len(pathSegments) > 0
                  THEN LET spin == endingAngularVelocityOf(pathSegments)
                       IN throwWith(w, [segments |-> pathSegments, currentIndex |-> 0,
                                        activeTimeInSegment |-> 0,
                                        endingAngularVelocity |-> spin],
                                    spin, base.x, base.y)
                  ELSE throwWith(w, EmptyPlan, 0, base.x, base.y)
          ELSE throwWith(w, EmptyPlan, 0, base.x, base.y)

\* mutant: in curveball mode a plan without segments fails the throw
executeActualThrowLogicNeedsSegments(w, tapTimestamp) ==
  IF alreadyThrown(w) THEN w
  ELSE LET recentSamples == recentSamplesOf(w, tapTimestamp)
           base == baseDirection(w, recentSamples)
       IN IF ~base.ok THEN [w EXCEPT !.IsThrown = FALSE]
          ELSE IF w.EnableCurveball /\ Len(recentSamples) > 0
          THEN LET pathSegments == pathSegmentsFrom(SortByTimestamp(recentSamples), 1)
               IN IF Len(pathSegments) > 0
                  THEN LET spin == endingAngularVelocityOf(pathSegments)
                       IN throwWith(w, [segments |-> pathSegments, currentIndex |-> 0,
                                        activeTimeInSegment |-> 0,
                                        endingAngularVelocity |-> spin],
                                    spin, pathSegments[1].dx, pathSegments[1].dy)
                  ELSE [w EXCEPT !.IsThrown = FALSE]
          ELSE throwWith(w, EmptyPlan, 0, base.x, base.y)

executeActualThrowLogic(w, tapTimestamp) ==
  IF alreadyThrown(w) THEN w
  ELSE LET recentSamples == recentSamplesOf(w, tapTimestamp)
           base == baseDirection(w, recentSamples)
       IN IF ~base.ok THEN [w EXCEPT !.IsThrown = FALSE]
          ELSE IF w.EnableCurveball /\ Len(recentSamples) > 0
          THEN LET pathSegments == pathSegmentsFrom(SortByTimestamp(recentSamples), 1)
               IN IF Len(pathSegments) > 0
                  THEN LET spin == endingAngularVelocityOf(pathSegments)
                       IN throwWith(w, [segments |-> pathSegments, currentIndex |-> 0,
                                        activeTimeInSegment |-> 0,
                                        endingAngularVelocity |-> spin],
                                    spin, pathSegments[1].dx, pathSegments[1].dy)
                  ELSE throwWith(w, EmptyPlan, 0, base.x, base.y)
          ELSE throwWith(w, EmptyPlan, 0, base.x, base.y)

\* ------------------------------------------------ performThrowOrCatchAction
\* mutant: the gate closes for half the interval only
DebouncedHalfInterval(nowMs, lastTs) == nowMs - lastTs < TAP_ACTION_DEBOUNCE_MS \div 2

\* the debounce gate: now - lastTapActionTimestamp < TAP_ACTION_DEBOUNCE_MS
Debounced(nowMs, lastTs) == nowMs - lastTs < TAP_ACTION_DEBOUNCE_MS

\* mutant: the catch forgets to zero the velocity
catchMouseKeepsVelocity(w) == [w EXCEPT !.IsThrown = FALSE, !.IsThrowPending = FALSE]

\* mutant: the catch also empties the plan
catchMouseDiscardsPlan(w) ==
  [w EXCEPT !.IsThrown = FALSE, !.IsThrowPending = FALSE, !.MouseVelocity = ZeroVec,
            !.ThrowPathPlan = EmptyPlan]

\* the catch branch (isCurrentlyThrown)
catchMouse(w) ==
  LET caught == [w EXCEPT !.IsThrown = FALSE, !.MouseVelocity = ZeroVec]
  IN IF caught.IsThrowPending THEN [caught EXCEPT !.IsThrowPending = FALSE] ELSE caught

\* mutant: the callback clears Pending without committing the throw
delayedThrowWithoutCommit(w, tapTimestamp) == [w EXCEPT !.IsThrowPending = FALSE]

\* mutant: the callback clears Pending only inside the branch that commits,
\* and only when the commit threw
delayedThrowClearsOnSuccess(w, tapTimestamp) ==
  LET after == IF w.IsThrowPending THEN executeActualThrowLogic(w, tapTimestamp) ELSE w
  IN IF after.IsThrown THEN [after EXCEPT !.IsThrowPending = FALSE] ELSE after

\* mutant: the callback commits on the history as it was at the tap
delayedThrowOnHistoryAtTap(w, tapTimestamp) ==
  LET atTap == [w EXCEPT !.ArmDirectionHistory = FilterSeq(@, 0, tapTimestamp)]
      after == IF w.IsThrowPending
               THEN [executeActualThrowLogic(atTap, tapTimestamp)
                       EXCEPT !.ArmDirectionHistory = w.ArmDirectionHistory]
               ELSE w
  IN [after EXCEPT !.IsThrowPending = FALSE]

\* mutant: the callback commits and leaves Pending set
delayedThrowKeepsPending(w, tapTimestamp) ==
  IF w.IsThrowPending THEN executeActualThrowLogic(w, tapTimestamp) ELSE w

\* the setTimeout callback of the lookahead branch
delayedThrow(w, tapTimestamp) ==
  LET after == IF w.IsThrowPending THEN executeActualThrowLogic(w, tapTimestamp) ELSE w
  IN [after EXCEPT !.IsThrowPending = FALSE]

\* mutant: the body without the "throw already pending" early return
actOnWithoutPendingCheck(w, nowMs) ==
  LET stamped == [w EXCEPT !.LastTapTime = nowMs]
  IN IF stamped.IsThrown
     THEN [entity |-> catchMouse(stamped), scheduled |-> {}, outcome |-> "catch"]
     ELSE IF stamped.ConfigurableLookaheadDelayMs > 0
     THEN [entity |-> [stamped EXCEPT !.IsThrowPending = TRUE],
           scheduled |-> {[due |-> nowMs + stamped.ConfigurableLookaheadDelayMs,
                           tapTimestamp |-> nowMs]},
           outcome |-> "scheduled"]
     ELSE [entity |-> executeActualThrowLogic(stamped, nowMs), scheduled |-> {},
           outcome |-> "commit"]

\* mutant: an action while Pending takes the catch branch and clears Pending
actOnCatchesWhilePending(w, nowMs) ==
  LET stamped == [w EXCEPT !.LastTapTime = nowMs]
  IN IF stamped.IsThrown \/ stamped.IsThrowPending
     THEN [entity |-> catchMouse(stamped), scheduled |-> {}, outcome |-> "catch"]
     ELSE IF stamped.ConfigurableLookaheadDelayMs > 0
     THEN [entity |-> [stamped EXCEPT !.IsThrowPending = TRUE],
           scheduled |-> {[due |-> nowMs + stamped.ConfigurableLookaheadDelayMs,
                           tapTimestamp |-> nowMs]},
           outcome |-> "scheduled"]
     ELSE [entity |-> executeActualThrowLogic(stamped, nowMs), scheduled |-> {},
           outcome |-> "commit"]

\* the body after the debounce gate: the entity, the callbacks handed to
\* setTimeout, and which branch was taken
actOn(w, nowMs) ==
  LET stamped == [w EXCEPT !.LastTapTime = nowMs]
  IN IF stamped.IsThrowPending
     THEN [entity |-> stamped, scheduled |-> {}, outcome |-> "ignored"]
     ELSE IF stamped.IsThrown
     THEN [entity |-> catchMouse(stamped), scheduled |-> {}, outcome |-> "catch"]
     ELSE IF stamped.ConfigurableLookaheadDelayMs > 0
     THEN [entity |-> [stamped EXCEPT !.IsThrowPending = TRUE],
           scheduled |-> {[due |-> nowMs + stamped.ConfigurableLookaheadDelayMs,
                           tapTimestamp |-> nowMs]},
           outcome |-> "scheduled"]
     ELSE [entity |-> executeActualThrowLogic(stamped, nowMs), scheduled |-> {},
           outcome |-> "commit"]

\* mutant: an action ignored while Pending leaves the debounce clock alone
performThrowOrCatchActionIgnoredKeepsClock(source) ==
  IF Debounced(now, lastTapActionTimestamp)
  THEN UNCHANGED vars
  ELSE /\ lastTapActionTimestamp' =
            IF watchEntity.IsThrowPending THEN lastTapActionTimestamp ELSE now
       /\ watchEntity' = actOn(watchEntity, now).entity
       /\ timers' = timers \cup actOn(watchEntity, now).scheduled
       /\ last' = [op |-> source, outcome |-> actOn(watchEntity, now).outcome]
       /\ UNCHANGED now

performThrowOrCatchAction(source) ==
  IF Debounced(now, lastTapActionTimestamp)
  THEN UNCHANGED vars
  ELSE /\ lastTapActionTimestamp' = now
       /\ watchEntity' = actOn(watchEntity, now).entity
       /\ timers' = timers \cup actOn(watchEntity, now).scheduled
       /\ last' = [op |-> source, outcome |-> actOn(watchEntity, now).outcome]
       /\ UNCHANGED now

\* --------------------------------------------------------------- listeners
tapListener == performThrowOrCatchAction("tap")

\* clampedFlickSensitivityInternal in thousandths, from the slider in tenths
flickSensitivityInternal(ui) ==
  Max(0, Min(1000, FLICK_SENSITIVITY_UI_QUADRATIC_A * ui * ui
                   + FLICK_SENSITIVITY_UI_QUADRATIC_B * ui * 10))

\* tapProbability >= (1 - internal) ^ FLICK_SENSITIVITY_EXPONENT, both sides
\* scaled by 10^9; tapProbability in tenths
flickDetected(ui, tapProbability) ==
  LET oneMinus == 1000 - flickSensitivityInternal(ui)
  IN tapProbability * 100000000 >= oneMinus * oneMinus * oneMinus

\* mutant: the listener without the currentFlickSensitivityUI > 0 test
probabilityListenerWithoutSensitivityTest(tapProbability) ==
  IF flickDetected(watchEntity.FlickSensitivity, tapProbability)
  THEN performThrowOrCatchAction("flick")
  ELSE UNCHANGED vars

probabilityListener(tapProbability) ==
  IF watchEntity.FlickSensitivity > 0 /\ flickDetected(watchEntity.FlickSensitivity, tapProbability)
  THEN performThrowOrCatchAction("flick")
  ELSE UNCHANGED vars

\* the history after pushing a sample at nowMs and pruning by age
recordSample(samples, dx, dy, nowMs) ==
  LET pushed == Append(samples, [dx |-> dx, dy |-> dy, timestamp |-> nowMs])
  IN FilterSeq(pushed, nowMs - ARM_DIRECTION_HISTORY_MAX_AGE_MS, nowMs)

armDirectionListener(dx, dy) ==
  /\ Len(recordSample(watchEntity.ArmDirectionHistory, dx, dy, now)) <= MaxSamples
  /\ watchEntity' = [watchEntity EXCEPT
                       !.ArmDirection = [isNull |-> FALSE, x |-> dx, y |-> dy],
                       !.ArmDirectionHistory = recordSample(@, dx, dy, now)]
  /\ UNCHANGED <<lastTapActionTimestamp, timers, now, last>>

\* a setTimeout callback runs, at or after its due time
timerFires(t) ==
  /\ t \in timers
  /\ now >= t.due
  /\ watchEntity' = delayedThrow(watchEntity, t.tapTimestamp)
  /\ timers' = timers \ {t}
  /\ last' = [op |-> "timer",
              outcome |-> IF ~watchEntity.IsThrowPending THEN "skipped"
                          ELSE IF watchEntity'.IsThrown THEN "thrown" ELSE "failed"]
  /\ UNCHANGED <<lastTapActionTimestamp, now>>

\* the clock advances; a due callback is at most MaxTimerLate late
timePasses(d) ==
  /\ now + d <= MaxTime
  /\ \A t \in timers : now + d <= t.due + MaxTimerLate
  /\ now' = now + d
  /\ UNCHANGED <<watchEntity, lastTapActionTimestamp, timers, last>>

\* ------------------------------------------------------- useFrame callback
\* angle reduced to (-PI, PI]
ReduceAngle(a) == WrapAngle(a - ((a \div (2 * PI_MRAD)) * (2 * PI_MRAD)))

\* sine of x in [0, PI/2] milliradians, in thousandths (Taylor, three terms)
SinQuarter(x) ==
  LET x2 == (x * x) \div 1000
      t3 == (x * x2) \div 6000
      t5 == (t3 * x2) \div 20000
  IN x - t3 + t5
\* cosine of x in [0, PI/2] milliradians, in thousandths (Taylor, four terms)
CosQuarter(x) ==
  LET x2 == (x * x) \div 1000
      t4 == (x2 * x2) \div 24000
      t6 == (t4 * x2) \div 30000
  IN 1000 - (x2 \div 2) + t4 - t6
\* Math.sin and Math.cos of an angle in milliradians, in thousandths
Sin(a) ==
  LET r == ReduceAngle(a)
      m == Abs(r)
      q == IF m > PI_MRAD \div 2 THEN SinQuarter(PI_MRAD - m) ELSE SinQuarter(m)
  IN IF r < 0 THEN 0 - q ELSE q
Cos(a) ==
  LET m == Abs(ReduceAngle(a))
  IN IF m > PI_MRAD \div 2 THEN 0 - CosQuarter(PI_MRAD - m) ELSE CosQuarter(m)

Speed(v) == Sqrt(v.x * v.x + v.y * v.y)

\* pathPlanTrait.segments.length > 0 && currentIndex < segments.length
planHasSegment(enableCurveball, plan) ==
  enableCurveball /\ Len(plan.segments) > 0 /\ plan.currentIndex < Len(plan.segments)

\* mutant: playback starts over after the last segment
advancePlanLooping(plan, deltaMs) ==
  LET segment == plan.segments[plan.currentIndex + 1]
      active == plan.activeTimeInSegment + deltaMs
  IN IF active >= segment.duration
     THEN [plan EXCEPT !.currentIndex = (@ + 1) % Len(plan.segments),
                       !.activeTimeInSegment = 0]
     ELSE [plan EXCEPT !.activeTimeInSegment = active]

\* mutant: a tick that outlasts the current and the next segment skips the next
advancePlanByElapsedTime(plan, deltaMs) ==
  LET segment == plan.segments[plan.currentIndex + 1]
      active == plan.activeTimeInSegment + deltaMs
  IN IF /\ plan.currentIndex + 2 <= Len(plan.segments)
        /\ active >= segment.duration + plan.segments[plan.currentIndex + 2].duration
     THEN [plan EXCEPT !.currentIndex = @ + 2, !.activeTimeInSegment = 0]
     ELSE IF active >= segment.duration
     THEN [plan EXCEPT !.currentIndex = @ + 1, !.activeTimeInSegment = 0]
     ELSE [plan EXCEPT !.activeTimeInSegment = active]

\* the plan after one tick of segment playback
advancePlan(plan, deltaMs) ==
  LET segment == plan.segments[plan.currentIndex + 1]
      active == plan.activeTimeInSegment + deltaMs
  IN IF active >= segment.duration
     THEN [plan EXCEPT !.currentIndex = @ + 1, !.activeTimeInSegment = 0]
     ELSE [plan EXCEPT !.activeTimeInSegment = active]

\* velocity re-aimed along the current segment at the current speed
reaim(plan, v, currentSpeed) ==
  LET segment == plan.segments[plan.currentIndex + 1]
  IN IF currentSpeed * 100 > FP
     THEN [x |-> TruncDiv(segment.dx * currentSpeed, FP),
           y |-> TruncDiv(segment.dy * currentSpeed, FP)]
     ELSE v

\* velocity rotated by angularVelocity * delta
rotate(v, angularVelocity, deltaMs) ==
  LET angleDelta == TruncDiv(angularVelocity * deltaMs, 1000)
      cosA == Cos(angleDelta)
      sinA == Sin(angleDelta)
  IN [x |-> TruncDiv(v.x * cosA - v.y * sinA, 1000),
      y |-> TruncDiv(v.x * sinA + v.y * cosA, 1000)]

\* nextContinuingAngularVelocity
decaySpin(angularVelocity, deltaMs) ==
  LET next == angularVelocity - TruncDiv(angularVelocity * ANGULAR_FRICTION_CONSTANT * deltaMs, 100000)
  IN IF Abs(next) < MIN_CONTINUING_ANGULAR_VELOCITY THEN 0 ELSE next

\* dynamicFrictionFactor, in hundredths
dynamicFrictionFactor(currentSpeed) ==
  IF currentSpeed <= MIN_THROW_SPEED_THRESHOLD * FP THEN FRICTION_FACTOR_LOW_SPEED
  ELSE IF currentSpeed >= FRICTION_TRANSITION_MAX_SPEED * FP THEN FRICTION_FACTOR_HIGH_SPEED
  ELSE FRICTION_FACTOR_LOW_SPEED
       + TruncDiv((FRICTION_FACTOR_HIGH_SPEED - FRICTION_FACTOR_LOW_SPEED)
                    * (currentSpeed - MIN_THROW_SPEED_THRESHOLD * FP),
                  (FRICTION_TRANSITION_MAX_SPEED - MIN_THROW_SPEED_THRESHOLD) * FP)

\* mutant: friction per tick instead of per second
applyFrictionPerTick(c, factor, deltaMs) == c - TruncDiv(c * factor, 100)

\* v * (1 - dynamicFrictionFactor * delta)
applyFriction(c, factor, deltaMs) == c - TruncDiv(c * factor * deltaMs, 100000)

\* mutant: a clamped axis keeps its velocity
clampAxisKeepsVelocity(p, v, extent) ==
  LET lo == BOUNDARY_PADDING * FP
      hi == (extent - BOUNDARY_PADDING) * FP
  IN [p |-> Max(lo, Min(hi, p)), v |-> v]

\* one axis clamped to [BOUNDARY_PADDING, extent - BOUNDARY_PADDING]
clampAxis(p, v, extent) ==
  LET lo == BOUNDARY_PADDING * FP
      hi == (extent - BOUNDARY_PADDING) * FP
      a == IF p < lo THEN [p |-> lo, v |-> 0] ELSE [p |-> p, v |-> v]
  IN IF a.p > hi THEN [p |-> hi, v |-> 0] ELSE a

\* the tick up to and including friction: the plan, the exit spin and the
\* velocity before the minimum-speed test
tickThroughFriction(w, deltaMs) ==
  LET vel0 == w.MouseVelocity
      currentSpeed == Speed(vel0)
      steered == planHasSegment(w.EnableCurveball, w.ThrowPathPlan)
      vel1 == IF steered THEN reaim(w.ThrowPathPlan, vel0, currentSpeed) ELSE vel0
      plan1 == IF steered THEN advancePlan(w.ThrowPathPlan, deltaMs) ELSE w.ThrowPathPlan
      isPathPlanActive == planHasSegment(w.EnableCurveball, plan1)
      spinning == /\ w.EnableCurveball
                  /\ ~isPathPlanActive
                  /\ currentSpeed > MIN_THROW_SPEED_THRESHOLD * FP
                  /\ w.MouseContinuingAngularVelocity # 0
      vel2 == IF spinning THEN rotate(vel1, w.MouseContinuingAngularVelocity, deltaMs) ELSE vel1
      spin1 == IF spinning THEN decaySpin(w.MouseContinuingAngularVelocity, deltaMs)
               ELSE w.MouseContinuingAngularVelocity
      factor == dynamicFrictionFactor(currentSpeed)
  IN [plan |-> plan1,
      spin |-> spin1,
      velocity |-> [x |-> applyFriction(vel2.x, factor, deltaMs),
                    y |-> applyFriction(vel2.y, factor, deltaMs)]]

\* mutant: the minimum-speed test never stops the object
belowMinThrowSpeedNever(speedAfterFriction) == FALSE

\* speedAfterFriction < MIN_THROW_SPEED_THRESHOLD
belowMinThrowSpeed(speedAfterFriction) == speedAfterFriction < MIN_THROW_SPEED_THRESHOLD * FP

\* mutant: the callback without the isThrownState.value test
useFrameTickWithoutFlyingTest(w, deltaMs) ==
  LET newX == w.MousePosition.x + TruncDiv(w.MouseVelocity.x * deltaMs, 1000)
      newY == w.MousePosition.y + TruncDiv(w.MouseVelocity.y * deltaMs, 1000)
      moved == tickThroughFriction(w, deltaMs)
      stopped == belowMinThrowSpeed(Speed(moved.velocity))
      vel4 == IF stopped THEN ZeroVec ELSE moved.velocity
      cx == clampAxis(newX, vel4.x, InnerWidth)
      cy == clampAxis(newY, vel4.y, InnerHeight)
  IN [w EXCEPT !.ThrowPathPlan = moved.plan,
               !.MouseContinuingAngularVelocity = moved.spin,
               !.IsThrown = ~stopped,
               !.MousePosition = [x |-> cx.p, y |-> cy.p],
               !.MouseVelocity = [x |-> cx.v, y |-> cy.v]]

\* mutant: the stop clears IsThrown and keeps the velocity after friction
useFrameTickStopKeepsVelocity(w, deltaMs) ==
  IF ~w.IsThrown THEN w
  ELSE
    LET newX == w.MousePosition.x + TruncDiv(w.MouseVelocity.x * deltaMs, 1000)
        newY == w.MousePosition.y + TruncDiv(w.MouseVelocity.y * deltaMs, 1000)
        moved == tickThroughFriction(w, deltaMs)
        stopped == belowMinThrowSpeed(Speed(moved.velocity))
        cx == clampAxis(newX, moved.velocity.x, InnerWidth)
        cy == clampAxis(newY, moved.velocity.y, InnerHeight)
    IN [w EXCEPT !.ThrowPathPlan = moved.plan,
                 !.MouseContinuingAngularVelocity = moved.spin,
                 !.IsThrown = ~stopped,
                 !.MousePosition = [x |-> cx.p, y |-> cy.p],
                 !.MouseVelocity = [x |-> cx.v, y |-> cy.v]]

useFrameTick(w, deltaMs) ==
  IF ~w.IsThrown THEN w
  ELSE
    LET newX == w.MousePosition.x + TruncDiv(w.MouseVelocity.x * deltaMs, 1000)
        newY == w.MousePosition.y + TruncDiv(w.MouseVelocity.y * deltaMs, 1000)
        moved == tickThroughFriction(w, deltaMs)
        stopped == belowMinThrowSpeed(Speed(moved.velocity))
        vel4 == IF stopped THEN ZeroVec ELSE moved.velocity
        cx == clampAxis(newX, vel4.x, InnerWidth)
        cy == clampAxis(newY, vel4.y, InnerHeight)
    IN [w EXCEPT !.ThrowPathPlan = moved.plan,
                 !.MouseContinuingAngularVelocity = moved.spin,
                 !.IsThrown = ~stopped,
                 !.MousePosition = [x |-> cx.p, y |-> cy.p],
                 !.MouseVelocity = [x |-> cx.v, y |-> cy.v]]

frameTick(deltaMs) ==
  /\ watchEntity' = useFrameTick(watchEntity, deltaMs)
  /\ UNCHANGED <<lastTapActionTimestamp, timers, now, last>>

\* ------------------------------------------------------------ settings inputs
setThrowWindowMs(val) ==
  /\ watchEntity' = [watchEntity EXCEPT !.ConfigurableThrowWindowMs = val]
  /\ UNCHANGED <<lastTapActionTimestamp, timers, now, last>>

setThrowStrength(val) ==
  /\ watchEntity' = [watchEntity EXCEPT !.ConfigurableThrowStrength = val]
  /\ UNCHANGED <<lastTapActionTimestamp, timers, now, last>>

setFlickSensitivity(val) ==
  /\ watchEntity' = [watchEntity EXCEPT !.FlickSensitivity = val]
  /\ UNCHANGED <<lastTapActionTimestamp, timers, now, last>>

setLookaheadDelayMs(val) ==
  /\ watchEntity' = [watchEntity EXCEPT !.ConfigurableLookaheadDelayMs = Max(0, val)]
  /\ UNCHANGED <<lastTapActionTimestamp, timers, now, last>>

setEnableCurveball(checked) ==
  /\ watchEntity' = [watchEntity EXCEPT !.EnableCurveball = checked]
  /\ UNCHANGED <<lastTapActionTimestamp, timers, now, last>>

\* ------------------------------------------------------------ specification
Init ==
  /\ watchEntity = [IsThrown |-> FALSE,
                    IsThrowPending |-> FALSE,
                    MousePosition |-> [x |-> (InnerWidth * FP) \div 2, y |-> (InnerHeight * FP) \div 2],
                    MouseVelocity |-> ZeroVec,
                    ArmDirection |-> NullArmDirection,
                    ArmDirectionHistory |-> <<>>,
                    ThrowPathPlan |-> EmptyPlan,
                    MouseAngularVelocityCurve |-> 0,
                    MouseContinuingAngularVelocity |-> 0,
                    ConfigurableThrowWindowMs |-> 50,
                    ConfigurableThrowStrength |-> 900,
                    ConfigurableLookaheadDelayMs |-> 30,
                    FlickSensitivity |-> 0,
                    EnableCurveball |-> FALSE,
                    LastTapTime |-> 0]
  /\ lastTapActionTimestamp = 0
  /\ timers = {}
  /\ now = StartTime
  /\ last = [op |-> "init", outcome |-> "none"]

Next ==
  \/ tapListener
  \/ \E p \in TapProbabilityChoices : probabilityListener(p)
  \/ \E d \in SampleDirs : armDirectionListener(d.dx, d.dy)
  \/ \E t \in timers : timerFires(t)
  \/ \E d \in TimeSteps : timePasses(d)
  \/ \E d \in TickDeltasMs : frameTick(d)
  \/ \E v \in ThrowWindowChoices : setThrowWindowMs(v)
  \/ \E v \in ThrowStrengthChoices : setThrowStrength(v)
  \/ \E v \in FlickSensitivityChoices : setFlickSensitivity(v)
  \/ \E v \in LookaheadChoices : setLookaheadDelayMs(v)
  \/ \E v \in BOOLEAN : setEnableCurveball(v)

Spec == Init /\ [][Next]_vars

\* ------------------------------------------------------------------- claims
\* a step in which a tap or flick passed the debounce gate
ActionPassedGate == lastTapActionTimestamp' # lastTapActionTimestamp
\* a step in which the setTimeout callback t ran
TimerRan(t) == t \in timers /\ t \notin timers'

\* C1: if a tap or flick passes the gate while a throw is Pending, then the
\* state is Idle once the deferred action of that throw has fired.
C1_CatchWinsOverPendingThrow ==
  [][\A t \in timers :
       (TimerRan(t) /\ watchEntity.LastTapTime > t.tapTimestamp) => ~watchEntity'.IsThrown]_vars

\* the commit finds a direction: a sample in its window or the cached ArmDirection
HasDirection(w, tapTimestamp) ==
  \/ \E i \in 1..Len(w.ArmDirectionHistory) :
        /\ w.ArmDirectionHistory[i].timestamp >= tapTimestamp - w.ConfigurableThrowWindowMs
        /\ w.ArmDirectionHistory[i].timestamp <= tapTimestamp + w.ConfigurableLookaheadDelayMs
  \/ ~w.ArmDirection.isNull

\* an allowed action from Idle with lookahead L > 0 makes the state Pending and
\* schedules one callback L ms later
TapFromIdleSchedules ==
  (ActionPassedGate /\ ~watchEntity.IsThrown /\ ~watchEntity.IsThrowPending
     /\ watchEntity.ConfigurableLookaheadDelayMs > 0)
  => /\ watchEntity'.IsThrowPending /\ ~watchEntity'.IsThrown
     /\ timers' = timers \cup {[due |-> now + watchEntity.ConfigurableLookaheadDelayMs,
                                tapTimestamp |-> now]}
\* until the callback runs the state stays Pending
PendingUntilTimer ==
  (watchEntity.IsThrowPending /\ timers' = timers)
  => (watchEntity'.IsThrowPending /\ ~watchEntity'.IsThrown)

C3_TapWhilePendingIgnored ==
  [][/\ (ActionPassedGate /\ watchEntity.IsThrowPending)
        => /\ watchEntity'.IsThrowPending = watchEntity.IsThrowPending
           /\ watchEntity'.IsThrown = watchEntity.IsThrown
           /\ watchEntity'.MouseVelocity = watchEntity.MouseVelocity
           /\ watchEntity'.ThrowPathPlan = watchEntity.ThrowPathPlan
           /\ timers' = timers
     /\ Cardinality(timers') <= 1]_vars

\* an allowed action was ignored while the throw is still pending
C3_Witness ==
  /\ watchEntity.IsThrowPending
  /\ last.outcome = "ignored"
  /\ \E t \in timers : watchEntity.LastTapTime > t.tapTimestamp

\* C4: after the deferred lookahead action has run, IsThrowPending is false,
\* whatever the commit did.
C4_DeferredClearsPending ==
  [][(\E t \in timers : TimerRan(t)) => ~watchEntity'.IsThrowPending]_vars

\* the deferred commit failed (no direction) and Pending is cleared
C4_Witness ==
  /\ last = [op |-> "timer", outcome |-> "failed"]
  /\ ~watchEntity.IsThrown /\ ~watchEntity.IsThrowPending

\* C5: an allowed tap or flick while Flying leaves velocity (0,0) and state Idle.
C5_CatchWhileFlying ==
  [][(ActionPassedGate /\ watchEntity.IsThrown)
     => /\ watchEntity'.MouseVelocity = ZeroVec
        /\ ~watchEntity'.IsThrown
        /\ ~watchEntity'.IsThrowPending]_vars

\* the object was caught by the action that ran at this instant
C5_Witness ==
  /\ last.outcome = "catch"
  /\ watchEntity.LastTapTime = now
  /\ ~watchEntity.IsThrown /\ watchEntity.MouseVelocity = ZeroVec

\* C6: two actions that pass the debounce gate, from tap or flick, are at least
\* TAP_ACTION_DEBOUNCE_MS apart.
C6_AllowedActionsApart ==
  [][ActionPassedGate
     => /\ lastTapActionTimestamp' = now
        /\ now - lastTapActionTimestamp >= TAP_ACTION_DEBOUNCE_MS
        /\ last'.op \in {"tap", "flick"}]_vars

\* a flick passed the gate after an earlier allowed action had thrown the object
C6_Witness ==
  /\ last = [op |-> "flick", outcome |-> "catch"]
  /\ lastTapActionTimestamp >= StartTime + TAP_ACTION_DEBOUNCE_MS

\* the commit run by an allowed action from Idle with no lookahead
ImmediateCommit ==
  /\ ActionPassedGate
  /\ ~watchEntity.IsThrown /\ ~watchEntity.IsThrowPending
  /\ watchEntity.ConfigurableLookaheadDelayMs = 0
\* the commit run by the setTimeout callback t
DeferredCommit(t) == TimerRan(t) /\ watchEntity.IsThrowPending

\* indices of the history samples inside the commit window
InWindow(w, tapTimestamp) ==
  {i \in 1..Len(w.ArmDirectionHistory) :
     /\ w.ArmDirectionHistory[i].timestamp >= tapTimestamp - w.ConfigurableThrowWindowMs
     /\ w.ArmDirectionHistory[i].timestamp <= tapTimestamp + w.ConfigurableLookaheadDelayMs}
RECURSIVE SumField(_, _, _)
SumField(h, I, f) ==
  IF I = {} THEN 0
  ELSE LET i == CHOOSE j \in I : TRUE IN h[i][f] + SumField(h, I \ {i}, f)
\* indices of the in-window samples of non-negligible magnitude
Usable(w, tapTimestamp) ==
  {i \in InWindow(w, tapTimestamp) :
     w.ArmDirectionHistory[i].dx * w.ArmDirectionHistory[i].dx
       + w.ArmDirectionHistory[i].dy * w.ArmDirectionHistory[i].dy > 0}
UnitOf(d) ==
  LET m == Sqrt(d.dx * d.dx + d.dy * d.dy)
  IN [x |-> TruncDiv(d.dx * FP, m), y |-> TruncDiv(d.dy * FP, m)]
\* the direction a commit throws along: the first usable sample's unit
\* direction in curveball mode, else the mean of the in-window samples, else
\* the cached ArmDirection
CommitDirection(w, tapTimestamp) ==
  LET I == InWindow(w, tapTimestamp)
      U == Usable(w, tapTimestamp)
  IN IF I = {} THEN [x |-> w.ArmDirection.x, y |-> w.ArmDirection.y]
     ELSE IF w.EnableCurveball /\ U # {}
     THEN UnitOf(w.ArmDirectionHistory[CHOOSE i \in U : \A j \in U : i <= j])
     ELSE [x |-> TruncDiv(SumField(w.ArmDirectionHistory, I, "dx"), Cardinality(I)),
           y |-> TruncDiv(SumField(w.ArmDirectionHistory, I, "dy"), Cardinality(I))]

CachedNonZero(w) ==
  ~w.ArmDirection.isNull /\ (w.ArmDirection.x # 0 \/ w.ArmDirection.y # 0)

\* C7 as stated: Idle, non-zero cached direction, lookahead 0, allowed tap =>
\* Flying in the same handler with |velocity| = |cached direction| * throwStrength
\* (compared as squares).
C7_ImmediateThrowAlongCachedDirection ==
  [][(ImmediateCommit /\ CachedNonZero(watchEntity))
     => /\ watchEntity'.IsThrown
        /\ watchEntity'.MouseVelocity.x * watchEntity'.MouseVelocity.x
             + watchEntity'.MouseVelocity.y * watchEntity'.MouseVelocity.y
           = (watchEntity.ArmDirection.x * watchEntity.ArmDirection.x
                + watchEntity.ArmDirection.y * watchEntity.ArmDirection.y)
             * watchEntity.ConfigurableThrowStrength * watchEntity.ConfigurableThrowStrength]_vars

\* C7 amended: Idle, non-zero cached direction, lookahead 0, allowed tap =>
\* Flying in the same handler with velocity = commit direction * throwStrength,
\* the commit direction being the mean of the samples in the commit window (the
\* first usable sample's unit direction in curveball mode) and the cached
\* direction only when the window holds no sample.
C7_ImmediateThrowAlongCommitDirection ==
  [][(ImmediateCommit /\ CachedNonZero(watchEntity))
     => /\ watchEntity'.IsThrown
        /\ watchEntity'.MouseVelocity
           = [x |-> CommitDirection(watchEntity, now).x * watchEntity.ConfigurableThrowStrength,
              y |-> CommitDirection(watchEntity, now).y * watchEntity.ConfigurableThrowStrength]]_vars

\* an immediate throw whose velocity is not the cached direction * strength
C7_Witness ==
  /\ last.outcome = "commit"
  /\ watchEntity.LastTapTime = now
  /\ watchEntity.IsThrown
  /\ watchEntity.ConfigurableLookaheadDelayMs = 0
  /\ CachedNonZero(watchEntity)
  /\ watchEntity.MouseVelocity.x # watchEntity.ArmDirection.x * watchEntity.ConfigurableThrowStrength
  /\ watchEntity.MouseVelocity.x = (FP \div 2) * watchEntity.ConfigurableThrowStrength

\* C8: a commit whose resulting direction is the zero vector aborts: the state
\* stays Idle and velocity is (0,0).
C8_ZeroDirectionAborts ==
  [][/\ (ImmediateCommit /\ HasDirection(watchEntity, now)
           /\ CommitDirection(watchEntity, now) = ZeroVec)
        => (~watchEntity'.IsThrown /\ watchEntity'.MouseVelocity = ZeroVec)
     /\ \A t \in timers :
          (DeferredCommit(t) /\ HasDirection(watchEntity, t.tapTimestamp)
             /\ CommitDirection(watchEntity, t.tapTimestamp) = ZeroVec)
          => (~watchEntity'.IsThrown /\ watchEntity'.MouseVelocity = ZeroVec)]_vars

\* C9: a commit with no sample in its window and no cached direction aborts:
\* afterwards the state is Idle and velocity is (0,0).
C9_NoDirectionAborts ==
  [][/\ (ImmediateCommit /\ ~HasDirection(watchEntity, now))
        => (~watchEntity'.IsThrown /\ watchEntity'.MouseVelocity = ZeroVec)
     /\ \A t \in timers :
          (DeferredCommit(t) /\ ~HasDirection(watchEntity, t.tapTimestamp))
          => (~watchEntity'.IsThrown /\ watchEntity'.MouseVelocity = ZeroVec)]_vars

\* an immediate commit just aborted for lack of any direction
C9_Witness ==
  /\ last.outcome = "commit"
  /\ watchEntity.LastTapTime = now
  /\ watchEntity.ArmDirection.isNull
  /\ watchEntity.ArmDirectionHistory = <<>>
  /\ ~watchEntity.IsThrown /\ watchEntity.MouseVelocity = ZeroVec

\* ------------------------------------------ the commit routine on its own
\* entity states handed to executeActualThrowLogic
aSample(d, ts) == [dx |-> d.dx, dy |-> d.dy, timestamp |-> ts]
CommitHistories ==
  {<<>>} \cup {<<aSample(d, StartTime)>> : d \in SampleDirs}
         \cup {<<aSample(d, StartTime - 50), aSample(e, StartTime)>> : d \in SampleDirs, e \in SampleDirs}
CommitPlans ==
  {EmptyPlan,
   [segments |-> <<[dx |-> FP, dy |-> 0, duration |-> LAST_SEGMENT_DURATION_MS]>>,
    currentIndex |-> 0, activeTimeInSegment |-> 0, endingAngularVelocity |-> 0],
   [segments |-> <<[dx |-> FP, dy |-> 0, duration |-> 50],
                   [dx |-> 0, dy |-> FP, duration |-> LAST_SEGMENT_DURATION_MS]>>,
    currentIndex |-> 1, activeTimeInSegment |-> 0,
    endingAngularVelocity |-> (PI_MRAD * 1000) \div (2 * LAST_SEGMENT_DURATION_MS)]}
CommitEntities ==
  {w \in [IsThrown : BOOLEAN,
          IsThrowPending : BOOLEAN,
          MousePosition : {[x |-> (InnerWidth * FP) \div 2, y |-> (InnerHeight * FP) \div 2]},
          MouseVelocity : {ZeroVec, [x |-> 900 * FP, y |-> 0], [x |-> 0, y |-> 0 - 500 * FP]},
          ArmDirection : {NullArmDirection, [isNull |-> FALSE, x |-> FP, y |-> 0]},
          ArmDirectionHistory : CommitHistories,
          ThrowPathPlan : CommitPlans,
          MouseAngularVelocityCurve : {0},
          MouseContinuingAngularVelocity : {0},
          ConfigurableThrowWindowMs : {50},
          ConfigurableThrowStrength : {900},
          ConfigurableLookaheadDelayMs : {0, 30},
          FlickSensitivity : {0},
          EnableCurveball : BOOLEAN,
          LastTapTime : {StartTime}] :
     /\ ~w.IsThrown => w.MouseVelocity = ZeroVec
     /\ w.ArmDirectionHistory # <<>> => ~w.ArmDirection.isNull}

InitCommit ==
  /\ watchEntity \in {[w EXCEPT !.MouseContinuingAngularVelocity =
                                   w.ThrowPathPlan.endingAngularVelocity] : w \in CommitEntities}
  /\ lastTapActionTimestamp = StartTime
  /\ timers = {}
  /\ now = StartTime
  /\ last = [op |-> "init", outcome |-> "none"]

\* one call of executeActualThrowLogic(watchEntity, tapTimestamp)
commitCalled(tapTimestamp) ==
  /\ watchEntity' = executeActualThrowLogic(watchEntity, tapTimestamp)
  /\ last' = [op |-> "commit", outcome |-> "returned", before |-> watchEntity]
  /\ UNCHANGED <<lastTapActionTimestamp, timers, now>>

NextCommit == \E ts \in {StartTime - 100, StartTime} : commitCalled(ts)

SpecCommit == InitCommit /\ [][NextCommit]_vars

\* C10: a commit attempted while IsThrown is already true changes nothing:
\* velocity, PathPlan, exit spin and ThrowState are as they were.
C10_CommitWhileFlyingAborts ==
  (last.op = "commit" /\ last.before.IsThrown)
  => /\ watchEntity.MouseVelocity = last.before.MouseVelocity
     /\ watchEntity.ThrowPathPlan = last.before.ThrowPathPlan
     /\ watchEntity.MouseContinuingAngularVelocity = last.before.MouseContinuingAngularVelocity
     /\ watchEntity.IsThrown = last.before.IsThrown
     /\ watchEntity.IsThrowPending = last.before.IsThrowPending

\* the commit was called on a flying object with a plan in play and a
\* direction it could have thrown along
C10_Witness ==
  /\ last.op = "commit"
  /\ last.before.IsThrown
  /\ last.before.MouseVelocity # ZeroVec
  /\ last.before.ThrowPathPlan # EmptyPlan
  /\ last.before.MouseContinuingAngularVelocity # 0
  /\ HasDirection(last.before, StartTime)
  /\ watchEntity = last.before

\* ------------------------------------ the sample history and the commit window
\* the handlers that write and read ArmDirectionHistory, over a longer stretch
\* of time and with a throw window longer than the history's maximum age
\* the clock stops advancing here
MaxQuietTime == 400
HistoryWindowChoices == {50, 250}
HistoryLookaheadChoices == {0, 100}

\* the clock advances while no event arrives
timePassesQuietly(d) ==
  /\ now + d <= MaxQuietTime
  /\ \A t \in timers : now + d <= t.due + MaxTimerLate
  /\ now' = now + d
  /\ UNCHANGED <<watchEntity, lastTapActionTimestamp, timers, last>>

NextHistory ==
  \/ tapListener
  \/ \E d \in SampleDirs : armDirectionListener(d.dx, d.dy)
  \/ \E t \in timers : timerFires(t)
  \/ \E d \in TimeSteps : timePassesQuietly(d)
  \/ \E v \in HistoryWindowChoices : setThrowWindowMs(v)
  \/ \E v \in HistoryLookaheadChoices : setLookaheadDelayMs(v)

SpecHistory == Init /\ [][NextHistory]_vars

\* the mean of the in-window samples, times the throw strength
MeanThrow(w, tapTimestamp) ==
  LET I == InWindow(w, tapTimestamp)
  IN [x |-> TruncDiv(SumField(w.ArmDirectionHistory, I, "dx"), Cardinality(I))
              * w.ConfigurableThrowStrength,
      y |-> TruncDiv(SumField(w.ArmDirectionHistory, I, "dy"), Cardinality(I))
              * w.ConfigurableThrowStrength]

\* C11: the base direction of a commit is the mean of dx and of dy over exactly
\* the history samples with tapTimestamp - throwWindowMs <= t <= tapTimestamp +
\* lookaheadDelayMs, both ends included, tapTimestamp being the instant of the
\* tap and not the instant the commit runs (curveball off, so the base
\* direction is the direction thrown along).
C11_BaseDirectionIsWindowMean ==
  [][/\ (ImmediateCommit /\ ~watchEntity.EnableCurveball /\ InWindow(watchEntity, now) # {})
        => /\ watchEntity'.IsThrown
           /\ watchEntity'.MouseVelocity = MeanThrow(watchEntity, now)
     /\ \A t \in timers :
          (DeferredCommit(t) /\ ~watchEntity.EnableCurveball
             /\ InWindow(watchEntity, t.tapTimestamp) # {})
          => /\ watchEntity'.IsThrown
             /\ watchEntity'.MouseVelocity = MeanThrow(watchEntity, t.tapTimestamp)]_vars

\* a deferred throw along the mean of a sample exactly at the start of the
\* window and one exactly at its end, the commit running later than the tap
C11_Witness ==
  /\ last = [op |-> "timer", outcome |-> "thrown"]
  /\ watchEntity.ConfigurableLookaheadDelayMs > 0
  /\ Len(watchEntity.ArmDirectionHistory) = 2
  /\ watchEntity.ArmDirectionHistory[1].timestamp
       = lastTapActionTimestamp - watchEntity.ConfigurableThrowWindowMs
  /\ watchEntity.ArmDirectionHistory[2].timestamp
       = lastTapActionTimestamp + watchEntity.ConfigurableLookaheadDelayMs
  /\ watchEntity.ArmDirectionHistory[1].dx = FP
  /\ watchEntity.ArmDirectionHistory[2].dx = 0
  /\ watchEntity.MouseVelocity.x = (FP \div 2) * watchEntity.ConfigurableThrowStrength

\* indices of the samples recorded after the tap and inside the lookahead
RecordedWhilePending(w, tapTimestamp) ==
  {i \in 1..Len(w.ArmDirectionHistory) :
     /\ w.ArmDirectionHistory[i].timestamp > tapTimestamp
     /\ w.ArmDirectionHistory[i].timestamp <= tapTimestamp + w.ConfigurableLookaheadDelayMs}

\* C12: samples recorded while the throw is Pending, with timestamp <=
\* tapTimestamp + lookaheadDelayMs, count in the direction of the deferred
\* commit: it throws along the direction computed from the history as it is
\* when the callback runs.
C12_PendingSamplesAdmitted ==
  [][\A t \in timers :
       (DeferredCommit(t) /\ RecordedWhilePending(watchEntity, t.tapTimestamp) # {})
       => /\ RecordedWhilePending(watchEntity, t.tapTimestamp)
               \subseteq InWindow(watchEntity, t.tapTimestamp)
          /\ watchEntity'.IsThrown
          /\ watchEntity'.MouseVelocity
             = [x |-> CommitDirection(watchEntity, t.tapTimestamp).x
                        * watchEntity.ConfigurableThrowStrength,
                y |-> CommitDirection(watchEntity, t.tapTimestamp).y
                        * watchEntity.ConfigurableThrowStrength]]_vars

\* a deferred throw whose direction comes from a sample recorded after the tap
\* alone: the only sample recorded before the tap is older than the window
C12_Witness ==
  /\ last = [op |-> "timer", outcome |-> "thrown"]
  /\ Len(watchEntity.ArmDirectionHistory) = 2
  /\ watchEntity.ArmDirectionHistory[1].timestamp
       < lastTapActionTimestamp - watchEntity.ConfigurableThrowWindowMs
  /\ watchEntity.ArmDirectionHistory[1].dx = 0
  /\ watchEntity.ArmDirectionHistory[2].timestamp > lastTapActionTimestamp
  /\ watchEntity.ArmDirectionHistory[2].timestamp
       <= lastTapActionTimestamp + watchEntity.ConfigurableLookaheadDelayMs
  /\ watchEntity.ArmDirectionHistory[2].dx = FP
  /\ watchEntity.MouseVelocity.x = FP * watchEntity.ConfigurableThrowStrength

\* C13: every sample the commit-window filter returns is at most
\* ARM_DIRECTION_HISTORY_MAX_AGE_MS old at the time of the query.
C13_QueriedSamplesWithinMaxAge ==
  [][/\ ImmediateCommit
        => \A i \in InWindow(watchEntity, now) :
             now - watchEntity.ArmDirectionHistory[i].timestamp
               <= ARM_DIRECTION_HISTORY_MAX_AGE_MS
     /\ \A t \in timers :
          DeferredCommit(t)
          => \A i \in InWindow(watchEntity, t.tapTimestamp) :
               now - watchEntity.ArmDirectionHistory[i].timestamp
                 <= ARM_DIRECTION_HISTORY_MAX_AGE_MS]_vars

\* ----------------------------------------------------- the tick on its own
\* useFrame ticks applied to entities drawn from a bounded set
\* ticks applied in one run
MaxTicks == 3
\* useFrame delta, ms: a 100 Hz frame, a 60 Hz frame, a slow frame, a frame
\* after a stall
TickDeltaChoices == {10, 16, 200, 500}
\* px
TickPositions ==
  {[x |-> (InnerWidth * FP) \div 2, y |-> (InnerHeight * FP) \div 2],
   [x |-> BOUNDARY_PADDING * FP, y |-> (InnerHeight - BOUNDARY_PADDING) * FP],
   [x |-> (InnerWidth - BOUNDARY_PADDING) * FP, y |-> (BOUNDARY_PADDING + 10) * FP]}
\* px/s
TickVelocities ==
  {ZeroVec,
   [x |-> 900 * FP, y |-> 0],
   [x |-> 0, y |-> 0 - 900 * FP],
   [x |-> 0 - 300 * FP, y |-> 300 * FP],
   [x |-> 500 * FP, y |-> 0],
   [x |-> 100 * FP, y |-> 0],
   [x |-> 4 * FP, y |-> 3 * FP],
   [x |-> 0 - 6 * FP, y |-> 0]}
\* plans of a flight: those of the commit routine, a fresh plan of three
\* segments whose first two are shorter than a slow frame, and a plan played
\* to its end
TurnSegments ==
  <<[dx |-> FP, dy |-> 0, duration |-> MIN_SEGMENT_DURATION_MS],
    [dx |-> 0, dy |-> FP, duration |-> 50],
    [dx |-> 0 - FP, dy |-> 0, duration |-> LAST_SEGMENT_DURATION_MS]>>
TickPlans ==
  CommitPlans
  \cup {[segments |-> TurnSegments, currentIndex |-> 0, activeTimeInSegment |-> 0,
         endingAngularVelocity |-> endingAngularVelocityOf(TurnSegments)],
        [segments |-> <<[dx |-> FP, dy |-> 0, duration |-> 50],
                        [dx |-> 0, dy |-> FP, duration |-> LAST_SEGMENT_DURATION_MS]>>,
         currentIndex |-> 2, activeTimeInSegment |-> 0,
         endingAngularVelocity |-> (PI_MRAD * 1000) \div (2 * LAST_SEGMENT_DURATION_MS)]}
\* the exit spin stored beside a plan: the plan's own until the plan is
\* played to its end, a decayed one after
TickSpins(plan) ==
  IF Len(plan.segments) > 0 /\ plan.currentIndex >= Len(plan.segments)
  THEN {24}
  ELSE {plan.endingAngularVelocity}
TickEntities ==
  {w \in [IsThrown : BOOLEAN,
          IsThrowPending : BOOLEAN,
          MousePosition : TickPositions,
          MouseVelocity : TickVelocities,
          ArmDirection : {[isNull |-> FALSE, x |-> FP, y |-> 0]},
          ArmDirectionHistory : {<<>>},
          ThrowPathPlan : TickPlans,
          MouseAngularVelocityCurve : {0},
          MouseContinuingAngularVelocity : {0},
          ConfigurableThrowWindowMs : {50},
          ConfigurableThrowStrength : {900},
          ConfigurableLookaheadDelayMs : {30},
          FlickSensitivity : {0},
          EnableCurveball : BOOLEAN,
          LastTapTime : {StartTime}] :
     /\ ~w.IsThrown => w.MouseVelocity = ZeroVec
     /\ w.IsThrowPending => ~w.IsThrown}

InitTick ==
  /\ watchEntity \in UNION {{[w EXCEPT !.MouseContinuingAngularVelocity = a] :
                                a \in TickSpins(w.ThrowPathPlan)} : w \in TickEntities}
  /\ lastTapActionTimestamp = StartTime
  /\ timers = {}
  /\ now = StartTime
  /\ last = [op |-> "init", n |-> 0]

\* one call of the useFrame callback with delta = deltaMs
tickCalled(deltaMs) ==
  /\ last.n < MaxTicks
  /\ watchEntity' = useFrameTick(watchEntity, deltaMs)
  /\ last' = [op |-> "tick", n |-> last.n + 1, delta |-> deltaMs, before |-> watchEntity]
  /\ UNCHANGED <<lastTapActionTimestamp, timers, now>>

NextTick == \E d \in TickDeltaChoices : tickCalled(d)

SpecTick == InitTick /\ [][NextTick]_vars

\* the position the tick integrates to on one axis, before clamping
Integrated(p, v, deltaMs) == p + TruncDiv(v * deltaMs, 1000)
\* the axis was clamped: the integrated position is outside the play area
Clamped(p, extent) == p < BOUNDARY_PADDING * FP \/ p > (extent - BOUNDARY_PADDING) * FP

C15_StopsBelowMinSpeed ==
  (last.op = "tick" /\ last.before.IsThrown)
  => IF Speed(tickThroughFriction(last.before, last.delta).velocity)
          < MIN_THROW_SPEED_THRESHOLD * FP
     THEN /\ watchEntity.MouseVelocity = ZeroVec
          /\ ~watchEntity.IsThrown
          /\ ~watchEntity.IsThrowPending
     ELSE watchEntity.IsThrown

\* a tick took a moving object below the minimum speed and stopped it
C15_Witness ==
  /\ last.op = "tick"
  /\ last.before.IsThrown
  /\ Speed(last.before.MouseVelocity) >= MIN_THROW_SPEED_THRESHOLD * FP
  /\ tickThroughFriction(last.before, last.delta).velocity # ZeroVec
  /\ ~watchEntity.IsThrown
  /\ watchEntity.MouseVelocity = ZeroVec

\* C16: while Flying with friction and no PathPlan (curveball off), the speed
\* after each tick is lower than the speed before it, until it crosses the
\* minimum threshold, for every tick duration.
C16_SpeedDecreasesEveryTick ==
  (/\ last.op = "tick"
   /\ last.before.IsThrown
   /\ ~last.before.EnableCurveball
   /\ Speed(last.before.MouseVelocity) >= MIN_THROW_SPEED_THRESHOLD * FP)
  => Speed(watchEntity.MouseVelocity) < Speed(last.before.MouseVelocity)

\* ------------------------------------------------------ catch and the PathPlan
\* the plan has a segment left to play
ActiveSegment(plan) == Len(plan.segments) > 0 /\ plan.currentIndex < Len(plan.segments)

\* C17 as stated: after a catch the plan has no active segment.
C17_CatchDiscardsPlan ==
  [][(ActionPassedGate /\ watchEntity.IsThrown)
     => ~ActiveSegment(watchEntity'.ThrowPathPlan)]_vars

\* the plan a commit at tapTimestamp writes: one segment per usable sample in
\* curveball mode, none otherwise, playback at its start
FreshPlan(plan, w, tapTimestamp) ==
  /\ plan.currentIndex = 0
  /\ plan.activeTimeInSegment = 0
  /\ Len(plan.segments) = IF w.EnableCurveball THEN Cardinality(Usable(w, tapTimestamp)) ELSE 0

\* C17 amended: a catch makes the state Idle and leaves the plan in place,
\* possibly with an active segment; the plan left behind is inert: no step
\* changes it while the object is not Flying, and every commit that throws
\* replaces it by a plan built from that commit's samples.
C17_CaughtPlanIsInert ==
  [][/\ (ActionPassedGate /\ watchEntity.IsThrown) => ~watchEntity'.IsThrown
     /\ (~watchEntity.IsThrown /\ ~watchEntity'.IsThrown)
        => watchEntity'.ThrowPathPlan = watchEntity.ThrowPathPlan
     /\ (ImmediateCommit /\ watchEntity'.IsThrown)
        => FreshPlan(watchEntity'.ThrowPathPlan, watchEntity, now)
     /\ \A t \in timers :
          (DeferredCommit(t) /\ watchEntity'.IsThrown)
          => FreshPlan(watchEntity'.ThrowPathPlan, watchEntity, t.tapTimestamp)]_vars

\* the object was caught while its plan still had a segment to play
C17_Witness ==
  /\ last.outcome = "catch"
  /\ ~watchEntity.IsThrown
  /\ watchEntity.MouseVelocity = ZeroVec
  /\ ActiveSegment(watchEntity.ThrowPathPlan)

\* C18: a catch leaves segments, currentIndex, activeTimeInSegment and
\* endingAngularVelocity of the plan as they were; the segments and the exit
\* spin of the plan change only in a commit that throws.
C18_CatchKeepsPlan ==
  [][/\ (ActionPassedGate /\ watchEntity.IsThrown)
        => watchEntity'.ThrowPathPlan = watchEntity.ThrowPathPlan
     /\ (\/ watchEntity'.ThrowPathPlan.segments # watchEntity.ThrowPathPlan.segments
         \/ watchEntity'.ThrowPathPlan.endingAngularVelocity
              # watchEntity.ThrowPathPlan.endingAngularVelocity)
        => (~watchEntity.IsThrown /\ watchEntity'.IsThrown)]_vars

\* the object was caught at this instant after its plan had been played to
\* the end, and the plan is still there
C18_Witness ==
  /\ last.outcome = "catch"
  /\ watchEntity.LastTapTime = now
  /\ ~watchEntity.IsThrown
  /\ watchEntity.ThrowPathPlan.segments # <<>>
  /\ watchEntity.ThrowPathPlan.currentIndex = Len(watchEntity.ThrowPathPlan.segments)

\* --------------------------------------------------------- flick sensitivity
\* C20: with flickSensitivity = 0 no probability event triggers a throw/catch
\* action, whatever tapProbability is: an action that passes the gate at
\* sensitivity 0 comes from the tap.
C20_NoFlickAtZeroSensitivity ==
  [][(ActionPassedGate /\ watchEntity.FlickSensitivity = 0) => last'.op = "tap"]_vars

\* a flick triggered the last action, the sensitivity is 0 since, and the
\* debounce gate is open again
C20_Witness ==
  /\ last.op = "flick"
  /\ watchEntity.FlickSensitivity = 0
  /\ now - lastTapActionTimestamp >= TAP_ACTION_DEBOUNCE_MS

\* ------------------------------------------- armdirectionchanged event values
\* the listener applied to event details whose dx and dy are JavaScript values
\* of any kind; a value is its typeof, what kind of number it is, and the number
JsFinite(n) == [type |-> "number", kind |-> "finite", v |-> n]
JsNaN == [type |-> "number", kind |-> "NaN", v |-> 0]
JsInfinity == [type |-> "number", kind |-> "Infinity", v |-> 0]
JsNegInfinity == [type |-> "number", kind |-> "-Infinity", v |-> 0]
JsUndefined == [type |-> "undefined", kind |-> "undefined", v |-> 0]
ArmEventValues == {JsFinite(FP), JsNaN, JsInfinity, JsNegInfinity, JsUndefined}

\* typeof value === 'number'
typeofNumber(value) == value.type = "number"

\* armDirectionListener on the event detail {dx, dy}
armdirectionchanged(dx, dy) ==
  /\ (typeofNumber(dx) /\ typeofNumber(dy))
     => Len(recordSample(watchEntity.ArmDirectionHistory, dx, dy, now)) <= MaxSamples
  /\ watchEntity' = IF typeofNumber(dx) /\ typeofNumber(dy)
                    THEN [watchEntity EXCEPT
                            !.ArmDirection = [isNull |-> FALSE, x |-> dx, y |-> dy],
                            !.ArmDirectionHistory = recordSample(@, dx, dy, now)]
                    ELSE watchEntity
  /\ last' = [op |-> "armdirectionchanged", dx |-> dx, dy |-> dy, before |-> watchEntity]
  /\ UNCHANGED <<lastTapActionTimestamp, timers, now>>

NextArmEvents ==
  \/ \E dx \in ArmEventValues, dy \in ArmEventValues : armdirectionchanged(dx, dy)
  \/ \E d \in TimeSteps : timePasses(d)

SpecArmEvents == Init /\ [][NextArmEvents]_vars

\* Number.isFinite(value)
IsFiniteNumber(value) == value.type = "number" /\ value.kind = "finite"

\* C19: an armDirection event whose dx or dy is not a finite number is dropped:
\* the history, the cached direction and every other field are as before.
C19_NonFiniteSampleDropped ==
  (/\ last.op = "armdirectionchanged"
   /\ ~(IsFiniteNumber(last.dx) /\ IsFiniteNumber(last.dy)))
  => watchEntity = last.before

\* --------------------------------------------------- scenarios of the tick
\* C22: Flying with velocity (500, 0), no PathPlan, delta = 0.01 s and no
\* boundary contact: after the tick the speed is 493 = 500 * (1 - 1.4 * 0.01),
\* position.x has grown by 5.0 (the velocity before friction times delta) and
\* position.y is as before.
C22_FrictionTickScenario ==
  (/\ last.op = "tick"
   /\ last.delta = 10
   /\ last.before.IsThrown
   /\ last.before.MouseVelocity = [x |-> 500 * FP, y |-> 0]
   /\ last.before.ThrowPathPlan = EmptyPlan
   /\ ~Clamped(Integrated(last.before.MousePosition.x, 500 * FP, 10), InnerWidth))
  => /\ watchEntity.IsThrown
     /\ Speed(watchEntity.MouseVelocity) = 493 * FP
     /\ watchEntity.MouseVelocity = [x |-> 493 * FP, y |-> 0]
     /\ watchEntity.MousePosition.x = last.before.MousePosition.x + 5 * FP
     /\ watchEntity.MousePosition.y = last.before.MousePosition.y

\* the scenario's tick ran from the middle of the play area
C22_Witness ==
  /\ last.op = "tick"
  /\ last.n = 1
  /\ last.delta = 10
  /\ last.before.IsThrown
  /\ last.before.MouseVelocity = [x |-> 500 * FP, y |-> 0]
  /\ last.before.ThrowPathPlan = EmptyPlan
  /\ last.before.MousePosition.x = (InnerWidth * FP) \div 2
  /\ watchEntity.MousePosition.x = (InnerWidth * FP) \div 2 + 5 * FP
  /\ watchEntity.MouseVelocity.x = 493 * FP

\* C28: the exit spin rotates the velocity only in ticks in which no path
\* segment re-aimed it: a tick that begins with an active segment leaves the
\* spin as it was (the rotation always comes with a decay of the spin).
C28_PlaybackExcludesSpin ==
  (/\ last.op = "tick"
   /\ last.before.IsThrown
   /\ planHasSegment(last.before.EnableCurveball, last.before.ThrowPathPlan))
  => watchEntity.MouseContinuingAngularVelocity = last.before.MouseContinuingAngularVelocity

\* C30: across ticks currentIndex never decreases and stays within
\* 0 .. segments.length, the segments are not rewritten, and once currentIndex
\* = segments.length the plan no longer steers: the tick leaves the plan as it
\* is and moves the object as it would without a plan.
C30_PlanConsumedForward ==
  last.op = "tick"
  => /\ watchEntity.ThrowPathPlan.currentIndex >= last.before.ThrowPathPlan.currentIndex
     /\ watchEntity.ThrowPathPlan.currentIndex >= 0
     /\ watchEntity.ThrowPathPlan.currentIndex <= Len(watchEntity.ThrowPathPlan.segments)
     /\ watchEntity.ThrowPathPlan.segments = last.before.ThrowPathPlan.segments
     /\ (last.before.ThrowPathPlan.currentIndex = Len(last.before.ThrowPathPlan.segments))
        => /\ watchEntity.ThrowPathPlan = last.before.ThrowPathPlan
           /\ watchEntity.MouseVelocity
              = useFrameTick([last.before EXCEPT !.ThrowPathPlan = EmptyPlan],
                             last.delta).MouseVelocity
           /\ watchEntity.MousePosition
              = useFrameTick([last.before EXCEPT !.ThrowPathPlan = EmptyPlan],
                             last.delta).MousePosition

\* a tick played the last segment to its end, and the tick after it found the
\* plan exhausted
C30_Witness ==
  /\ last.op = "tick"
  /\ last.n >= 2
  /\ last.before.IsThrown
  /\ last.before.EnableCurveball
  /\ Len(last.before.ThrowPathPlan.segments) = 2
  /\ last.before.ThrowPathPlan.currentIndex = 2
  /\ watchEntity.ThrowPathPlan.currentIndex = 2

\* ------------------------------------------------ the curveball planner
\* executeActualThrowLogic on histories of up to three samples whose
\* directions differ in heading and in magnitude
PlannerDirs ==
  {[dx |-> FP, dy |-> 0], [dx |-> 2 * FP, dy |-> 0], [dx |-> 0, dy |-> FP],
   [dx |-> FP, dy |-> FP], [dx |-> 0, dy |-> 0]}
PlannerHistories ==
  {<<>>}
  \cup {<<aSample(c, StartTime)>> : c \in PlannerDirs}
  \cup {<<aSample(b, StartTime - 50), aSample(c, StartTime)>> :
          b \in PlannerDirs, c \in PlannerDirs}
  \cup {<<aSample(a, StartTime - 100), aSample(b, StartTime - 50), aSample(c, StartTime)>> :
          a \in PlannerDirs, b \in PlannerDirs, c \in PlannerDirs}
\* the cached direction of a history: its last sample, none when empty
CachedArmDirection(h) ==
  IF h = <<>> THEN NullArmDirection
  ELSE [isNull |-> FALSE, x |-> h[Len(h)].dx, y |-> h[Len(h)].dy]
PlannerEntities ==
  {[IsThrown |-> FALSE,
    IsThrowPending |-> FALSE,
    MousePosition |-> [x |-> (InnerWidth * FP) \div 2, y |-> (InnerHeight * FP) \div 2],
    MouseVelocity |-> ZeroVec,
    ArmDirection |-> CachedArmDirection(h),
    ArmDirectionHistory |-> h,
    ThrowPathPlan |-> EmptyPlan,
    MouseAngularVelocityCurve |-> 0,
    MouseContinuingAngularVelocity |-> 0,
    ConfigurableThrowWindowMs |-> window,
    ConfigurableThrowStrength |-> 900,
    ConfigurableLookaheadDelayMs |-> 0,
    FlickSensitivity |-> 0,
    EnableCurveball |-> curveball,
    LastTapTime |-> StartTime] :
     h \in PlannerHistories, window \in {50, 100}, curveball \in BOOLEAN}

InitPlanner ==
  /\ watchEntity \in PlannerEntities
  /\ lastTapActionTimestamp = StartTime
  /\ timers = {}
  /\ now = StartTime
  /\ last = [op |-> "init", outcome |-> "none"]

NextPlanner == commitCalled(StartTime)

SpecPlanner == InitPlanner /\ [][NextPlanner]_vars

\* the commit ran on an Idle object in curveball mode and threw it
CurveballThrow ==
  /\ last.op = "commit"
  /\ ~last.before.IsThrown
  /\ last.before.EnableCurveball
  /\ watchEntity.IsThrown

\* the exit spin the commit stored, in the plan and as continuing spin
SpinIs(a) ==
  /\ watchEntity.ThrowPathPlan.endingAngularVelocity = a
  /\ watchEntity.MouseContinuingAngularVelocity = a

\* the turn from segment s1 to segment s2 per second of s2's duration
PairAngularVelocity(s1, s2) ==
  TruncDiv(WrapAngle(Atan2(s2.dy, s2.dx) - Atan2(s1.dy, s1.dx)) * 1000, s2.duration)

\* C23 as stated: fewer than 2 adjacent pairs of usable segments => the exit
\* spin is 0.
C23_FewerThanTwoPairsNoSpin ==
  (CurveballThrow /\ Len(watchEntity.ThrowPathPlan.segments) - 1 < 2) => SpinIs(0)

\* C23 amended: fewer than 2 usable segments (no adjacent pair) => the exit
\* spin is 0; with exactly 2 segments the exit spin is the angular velocity of
\* their one pair.
C23_FewerThanTwoSegmentsNoSpin ==
  /\ (CurveballThrow /\ Len(watchEntity.ThrowPathPlan.segments) < MIN_SEGMENTS_FOR_ENDING_CURVE)
     => SpinIs(0)
  /\ (CurveballThrow /\ Len(watchEntity.ThrowPathPlan.segments) = 2)
     => SpinIs(PairAngularVelocity(watchEntity.ThrowPathPlan.segments[1],
                                   watchEntity.ThrowPathPlan.segments[2]))

\* a curveball throw from three samples of which one is usable: one segment,
\* no spin
C23_Witness ==
  /\ CurveballThrow
  /\ Cardinality(InWindow(last.before, StartTime)) = 3
  /\ Len(watchEntity.ThrowPathPlan.segments) = 1
  /\ SpinIs(0)

\* two samples point the same way
SameDirection(a, b) == a.dx * b.dy - a.dy * b.dx = 0 /\ a.dx * b.dx + a.dy * b.dy > 0

\* C24: in curveball mode, when the usable samples in the commit window all
\* point in the same direction, the exit spin is 0.
C24_CollinearSamplesNoSpin ==
  (/\ CurveballThrow
   /\ \A i \in Usable(last.before, StartTime), j \in Usable(last.before, StartTime) :
        SameDirection(last.before.ArmDirectionHistory[i], last.before.ArmDirectionHistory[j]))
  => SpinIs(0)

\* a curveball throw from three collinear samples of different magnitude:
\* three segments, no spin
C24_Witness ==
  /\ CurveballThrow
  /\ Len(watchEntity.ThrowPathPlan.segments) = 3
  /\ last.before.ArmDirectionHistory[1] = aSample([dx |-> FP, dy |-> 0], StartTime - 100)
  /\ last.before.ArmDirectionHistory[2] = aSample([dx |-> 2 * FP, dy |-> 0], StartTime - 50)
  /\ \A i \in 1..3 : SameDirection(last.before.ArmDirectionHistory[i],
                                   last.before.ArmDirectionHistory[1])
  /\ SpinIs(0)

C26_PendingExcludesFlying == ~(watchEntity.IsThrowPending /\ watchEntity.IsThrown)

\* the throw is Pending, not Flying, and a sample arrived since the tap
C26_Witness ==
  /\ watchEntity.IsThrowPending /\ ~watchEntity.IsThrown
  /\ \E t \in timers :
       \E i \in 1..Len(watchEntity.ArmDirectionHistory) :
          watchEntity.ArmDirectionHistory[i].timestamp > t.tapTimestamp

GentleDirs == {[dx |-> 1, dy |-> 0], [dx |-> FP, dy |-> 0]}

\* the minimum of the throw-strength slider
GentleStrengthChoices == {50}

NextGentle ==
  \/ tapListener
  \/ \E d \in GentleDirs : armDirectionListener(d.dx, d.dy)
  \/ \E t \in timers : timerFires(t)
  \/ \E d \in TimeSteps : timePasses(d)
  \/ \E d \in TickDeltasMs : frameTick(d)
  \/ \E v \in LookaheadChoices : setLookaheadDelayMs(v)
  \/ \E v \in GentleStrengthChoices : setThrowStrength(v)

SpecGentle == Init /\ [][NextGentle]_vars

\* C29: after every handler, an object that is not Flying has velocity (0,0).
C29_NotFlyingIsAtRest == ~watchEntity.IsThrown => watchEntity.MouseVelocity = ZeroVec

\* a flight ended by its first tick: the throw along the short direction is
\* below MIN_THROW_SPEED_THRESHOLD after friction, and the object rests one
\* tick's travel from the centre
C29_Witness ==
  /\ ~watchEntity.IsThrown /\ ~watchEntity.IsThrowPending
  /\ watchEntity.MouseVelocity = ZeroVec
  /\ watchEntity.MousePosition.x = (InnerWidth * FP) \div 2 + 10
  /\ last.outcome \in {"commit", "thrown"}

\* ------------------------------------------------- the end-to-end scenario
\* one sample (1,0), then a tap 10 ms later, with window 50, lookahead 0 and
\* strength 500; the clock starts at 0 or at StartTime
ScenarioClockStarts == {0, StartTime}
ScenarioSteps == {10}
\* the scenario's clock stops advancing here
ScenarioEnd == 130
ScenarioStrengthChoices == {500}
ScenarioLookaheadChoices == {0}

InitScenario ==
  /\ watchEntity = [IsThrown |-> FALSE,
                    IsThrowPending |-> FALSE,
                    MousePosition |-> [x |-> (InnerWidth * FP) \div 2, y |-> (InnerHeight * FP) \div 2],
                    MouseVelocity |-> ZeroVec,
                    ArmDirection |-> NullArmDirection,
                    ArmDirectionHistory |-> <<>>,
                    ThrowPathPlan |-> EmptyPlan,
                    MouseAngularVelocityCurve |-> 0,
                    MouseContinuingAngularVelocity |-> 0,
                    ConfigurableThrowWindowMs |-> 50,
                    ConfigurableThrowStrength |-> 900,
                    ConfigurableLookaheadDelayMs |-> 30,
                    FlickSensitivity |-> 0,
                    EnableCurveball |-> FALSE,
                    LastTapTime |-> 0]
  /\ lastTapActionTimestamp = 0
  /\ timers = {}
  /\ now \in ScenarioClockStarts
  /\ last = [op |-> "init", outcome |-> "none"]

\* performThrowOrCatchAction called by the tap listener, the call recorded
\* also when the debounce gate returns early
tapObserved ==
  /\ lastTapActionTimestamp' =
       IF Debounced(now, lastTapActionTimestamp) THEN lastTapActionTimestamp ELSE now
  /\ watchEntity' =
       IF Debounced(now, lastTapActionTimestamp) THEN watchEntity
       ELSE actOn(watchEntity, now).entity
  /\ timers' =
       IF Debounced(now, lastTapActionTimestamp) THEN timers
       ELSE timers \cup actOn(watchEntity, now).scheduled
  /\ last' = [op |-> "tap",
              outcome |-> IF Debounced(now, lastTapActionTimestamp) THEN "debounced"
                          ELSE actOn(watchEntity, now).outcome,
              at |-> now,
              gate |-> lastTapActionTimestamp,
              before |-> watchEntity]
  /\ UNCHANGED now

NextScenario ==
  \/ tapObserved
  \/ armDirectionListener(FP, 0)
  \/ \E t \in timers : timerFires(t)
  \/ \E d \in ScenarioSteps : now + d <= ScenarioEnd /\ timePasses(d)
  \/ \E v \in ScenarioStrengthChoices : setThrowStrength(v)
  \/ \E v \in ScenarioLookaheadChoices : setLookaheadDelayMs(v)

SpecScenario == InitScenario /\ [][NextScenario]_vars

\* the tap of the scenario was made: Idle, history = [(1,0) at t], window 50,
\* lookahead 0, strength 500, tap at t + 10
ScenarioTap ==
  /\ last.op = "tap"
  /\ ~last.before.IsThrown /\ ~last.before.IsThrowPending
  /\ last.before.ArmDirectionHistory = <<[dx |-> FP, dy |-> 0, timestamp |-> last.at - 10]>>
  /\ last.before.ConfigurableThrowWindowMs = 50
  /\ last.before.ConfigurableLookaheadDelayMs = 0
  /\ last.before.ConfigurableThrowStrength = 500
ScenarioThrown ==
  /\ watchEntity.IsThrown /\ ~watchEntity.IsThrowPending
  /\ watchEntity.MouseVelocity = [x |-> 500 * FP, y |-> 0]

\* C21 as stated: history = [(1,0) at t=0], window 50, lookahead 0, strength
\* 500, Idle; a tap at t=10 leaves velocity (500,0) and state Flying.
C21_ScenarioThrows == ScenarioTap => ScenarioThrown

\* C21 amended: the same, for a tap that the debounce gate lets through: the
\* last allowed action (initially timestamp 0) is at least
\* TAP_ACTION_DEBOUNCE_MS before the tap.
C21_ScenarioThrowsPastGate ==
  (ScenarioTap /\ last.at - last.gate >= TAP_ACTION_DEBOUNCE_MS) => ScenarioThrown

\* the scenario's tap passed the gate and the object flies at (500,0)
C21_Witness ==
  /\ ScenarioTap
  /\ last.at - last.gate >= TAP_ACTION_DEBOUNCE_MS
  /\ last.outcome = "commit"
  /\ ScenarioThrown
  /\ watchEntity.LastTapTime = last.at

\* ------------------------------------------------ frame and playback of the tick
\* C34: a tick delivered while the object is not Flying (Idle or Pending)
\* changes nothing: position, velocity, ThrowState, PathPlan and exit spin.
C34_TickOnlyWhileFlying ==
  (last.op = "tick" /\ ~last.before.IsThrown) => watchEntity = last.before

\* a tick on a Pending object in curveball mode whose PathPlan, left by a
\* caught flight, still has a segment to play
C34_Witness ==
  /\ last.op = "tick"
  /\ last.before.IsThrowPending /\ ~last.before.IsThrown
  /\ planHasSegment(last.before.EnableCurveball, last.before.ThrowPathPlan)
  /\ watchEntity = last.before

\* the tick played a segment of the plan of a Flying object
PlaybackTick ==
  /\ last.op = "tick"
  /\ last.before.IsThrown
  /\ planHasSegment(last.before.EnableCurveball, last.before.ThrowPathPlan)
\* a and b are parallel and point the same way, or a is zero
Along(a, b) == a.x * b.dy - a.y * b.dx = 0 /\ a.x * b.dx + a.y * b.dy >= 0

\* C38: a tick advances currentIndex by at most one, however long it is, and
\* by one exactly when the time in the segment reaches its duration; the
\* segment at currentIndex re-aims the velocity in that tick (seen after the
\* tick when neither the exit spin, nor a boundary, nor a friction factor of 1
\* or more per tick acted on it).
C38_OneSegmentPerTick ==
  PlaybackTick
  => LET before == last.before.ThrowPathPlan
         segment == before.segments[before.currentIndex + 1]
         after == watchEntity.ThrowPathPlan
     IN /\ after.currentIndex \in {before.currentIndex, before.currentIndex + 1}
        /\ after.currentIndex = before.currentIndex + 1
           <=> before.activeTimeInSegment + last.delta >= segment.duration
        /\ (/\ Speed(last.before.MouseVelocity) * 100 > FP
            /\ dynamicFrictionFactor(Speed(last.before.MouseVelocity)) * last.delta < 100000
            /\ \/ planHasSegment(TRUE, after)
               \/ last.before.MouseContinuingAngularVelocity = 0
            /\ ~Clamped(Integrated(last.before.MousePosition.x,
                                   last.before.MouseVelocity.x, last.delta), InnerWidth)
            /\ ~Clamped(Integrated(last.before.MousePosition.y,
                                   last.before.MouseVelocity.y, last.delta), InnerHeight))
           => Along(watchEntity.MouseVelocity, segment)

\* a slow frame, longer than the first two segments together, on a fresh plan
\* of three: the plan is at its second segment and the velocity points along
\* the first
C38_Witness ==
  /\ PlaybackTick
  /\ last.delta = 200
  /\ last.before.ThrowPathPlan.segments = TurnSegments
  /\ last.before.ThrowPathPlan.currentIndex = 0
  /\ watchEntity.ThrowPathPlan.currentIndex = 1
  /\ watchEntity.IsThrown
  /\ watchEntity.MouseVelocity.x > 0 /\ watchEntity.MouseVelocity.y = 0

\* --------------------------------------------------- the tick after a stall
\* one useFrame tick whose delta is the length of a stall of the render loop
\* (useFrame passes the clock's delta as it is), on a Flying object
StallDeltaChoices == {1500, 3000}
StallVelocities ==
  {[x |-> 100 * FP, y |-> 0], [x |-> 0, y |-> 0 - 100 * FP], [x |-> 0 - 300 * FP, y |-> 300 * FP]}
\* an empty plan with no spin, or a plan played to its end with a spin left
StallPlansAndSpins ==
  {[plan |-> EmptyPlan, spin |-> 0]}
  \cup {[plan |-> [segments |-> <<[dx |-> FP, dy |-> 0, duration |-> 50],
                                  [dx |-> 0, dy |-> FP, duration |-> LAST_SEGMENT_DURATION_MS]>>,
                   currentIndex |-> 2, activeTimeInSegment |-> 0,
                   endingAngularVelocity |-> (PI_MRAD * 1000) \div (2 * LAST_SEGMENT_DURATION_MS)],
         spin |-> a] :
          a \in {24, 0 - 24, (PI_MRAD * 1000) \div (2 * LAST_SEGMENT_DURATION_MS)}}
StallEntities ==
  {[IsThrown |-> TRUE,
    IsThrowPending |-> FALSE,
    MousePosition |-> p,
    MouseVelocity |-> v,
    ArmDirection |-> [isNull |-> FALSE, x |-> FP, y |-> 0],
    ArmDirectionHistory |-> <<>>,
    ThrowPathPlan |-> ps.plan,
    MouseAngularVelocityCurve |-> 0,
    MouseContinuingAngularVelocity |-> ps.spin,
    ConfigurableThrowWindowMs |-> 50,
    ConfigurableThrowStrength |-> 900,
    ConfigurableLookaheadDelayMs |-> 30,
    FlickSensitivity |-> 0,
    EnableCurveball |-> curveball,
    LastTapTime |-> StartTime] :
     p \in TickPositions, v \in StallVelocities, ps \in StallPlansAndSpins,
     curveball \in BOOLEAN}

\* the stall is the last tick of the run
InitStall ==
  /\ watchEntity \in StallEntities
  /\ lastTapActionTimestamp = StartTime
  /\ timers = {}
  /\ now = StartTime
  /\ last = [op |-> "init", n |-> MaxTicks - 1]

NextStall == \E d \in StallDeltaChoices : tickCalled(d)

SpecStall == InitStall /\ [][NextStall]_vars

\* the tick applied the exit spin
SpinTick ==
  /\ last.op = "tick"
  /\ last.before.IsThrown
  /\ last.before.EnableCurveball
  /\ ~planHasSegment(TRUE, watchEntity.ThrowPathPlan)
  /\ Speed(last.before.MouseVelocity) > MIN_THROW_SPEED_THRESHOLD * FP
  /\ last.before.MouseContinuingAngularVelocity # 0

\* C40: on a tick where the exit spin is applied the stored angular velocity
\* becomes spin * (1 - ANGULAR_FRICTION_CONSTANT * dt), or exactly 0 when that
\* is below MIN_CONTINUING_ANGULAR_VELOCITY in magnitude, and is no larger in
\* magnitude than before; on every other tick it is unchanged, so a spin of 0
\* stays 0.
C40_SpinDecays ==
  last.op = "tick"
  => LET spin == last.before.MouseContinuingAngularVelocity
         next == spin - TruncDiv(spin * ANGULAR_FRICTION_CONSTANT * last.delta, 100000)
     IN /\ SpinTick
           => /\ watchEntity.MouseContinuingAngularVelocity
                   = IF Abs(next) < MIN_CONTINUING_ANGULAR_VELOCITY THEN 0 ELSE next
              /\ Abs(watchEntity.MouseContinuingAngularVelocity) <= Abs(spin)
              /\ watchEntity.MouseContinuingAngularVelocity * spin >= 0
        /\ ~SpinTick => watchEntity.MouseContinuingAngularVelocity = spin

\* ------------------------------------------------ what a commit leaves behind
\* C31: a commit that makes the object Flying overwrites the PathPlan (its
\* segments made from the history, or empty; currentIndex 0,
\* activeTimeInSegment 0) and the exit spin, whatever an earlier flight left.
C31_CommitOverwritesPlanAndSpin ==
  (last.op = "commit" /\ ~last.before.IsThrown /\ watchEntity.IsThrown)
  => LET plan == watchEntity.ThrowPathPlan
     IN /\ plan.currentIndex = 0
        /\ plan.activeTimeInSegment = 0
        /\ ~last.before.EnableCurveball => plan.segments = <<>>
        /\ \A k \in 1..Len(plan.segments) :
             \E i \in 1..Len(last.before.ArmDirectionHistory) :
                /\ last.before.ArmDirectionHistory[i].dx # 0
                   \/ last.before.ArmDirectionHistory[i].dy # 0
                /\ UnitOf(last.before.ArmDirectionHistory[i]).x = plan.segments[k].dx
                /\ UnitOf(last.before.ArmDirectionHistory[i]).y = plan.segments[k].dy
        /\ plan.segments = <<>> => plan.endingAngularVelocity = 0
        /\ watchEntity.MouseContinuingAngularVelocity = plan.endingAngularVelocity
        /\ watchEntity.MouseAngularVelocityCurve = 0

\* a commit on an Idle object that still held a half-played plan and its spin
\* threw it with an empty plan and no spin
C31_Witness ==
  /\ last.op = "commit"
  /\ ~last.before.IsThrown
  /\ last.before.ThrowPathPlan.currentIndex = 1
  /\ last.before.MouseContinuingAngularVelocity # 0
  /\ watchEntity.IsThrown
  /\ watchEntity.ThrowPathPlan = EmptyPlan
  /\ watchEntity.MouseContinuingAngularVelocity = 0

\* ------------------------------------------------- the segments of a plan
\* C35 as stated: every segment of a plan lasts at least
\* MIN_SEGMENT_DURATION_MS, and the last segment of a non-empty plan lasts
\* LAST_SEGMENT_DURATION_MS.
C35_SegmentDurations ==
  (CurveballThrow /\ Len(watchEntity.ThrowPathPlan.segments) > 0)
  => LET segments == watchEntity.ThrowPathPlan.segments
     IN /\ \A k \in 1..Len(segments) : segments[k].duration >= MIN_SEGMENT_DURATION_MS
        /\ segments[Len(segments)].duration = LAST_SEGMENT_DURATION_MS

\* the first usable sample of the commit window, in time order
FirstUsable(w, tapTimestamp) ==
  w.ArmDirectionHistory[CHOOSE i \in Usable(w, tapTimestamp) :
                          \A j \in Usable(w, tapTimestamp) : i <= j]

\* C36: in curveball mode with at least one usable segment the initial
\* velocity is the unit direction of the first segment times the throw
\* strength, not the mean of the samples, and the plan starts at
\* currentIndex 0.
C36_FirstSegmentSetsVelocity ==
  (CurveballThrow /\ Usable(last.before, StartTime) # {})
  => LET first == UnitOf(FirstUsable(last.before, StartTime))
     IN /\ watchEntity.MouseVelocity
             = [x |-> first.x * last.before.ConfigurableThrowStrength,
                y |-> first.y * last.before.ConfigurableThrowStrength]
        /\ watchEntity.ThrowPathPlan.segments[1].dx = first.x
        /\ watchEntity.ThrowPathPlan.segments[1].dy = first.y
        /\ watchEntity.ThrowPathPlan.currentIndex = 0

\* a curveball throw whose first sample points down and whose later samples
\* point right: the velocity is straight down, the mean is not
C36_Witness ==
  /\ CurveballThrow
  /\ Cardinality(Usable(last.before, StartTime)) = 3
  /\ watchEntity.MouseVelocity = [x |-> 0, y |-> FP * last.before.ConfigurableThrowStrength]
  /\ MeanThrow(last.before, StartTime).x > 0

\* ------------------------------------------------------- the debounce clock
\* a stream of taps 10 ms apart; denied counts the calls in a row that the
\* gate returned early on, up to MaxDeniedCounted
MaxDeniedCounted == 3
DeniedBefore == IF last.op = "tap" THEN last.denied ELSE 0

\* mutant: a denied call restarts the debounce interval
tapCountedRestartsClock ==
  /\ lastTapActionTimestamp' = now
  /\ watchEntity' =
       IF Debounced(now, lastTapActionTimestamp) THEN watchEntity
       ELSE actOn(watchEntity, now).entity
  /\ timers' =
       IF Debounced(now, lastTapActionTimestamp) THEN timers
       ELSE timers \cup actOn(watchEntity, now).scheduled
  /\ last' = [op |-> "tap",
              at |-> now,
              denied |-> IF Debounced(now, lastTapActionTimestamp)
                         THEN Min(DeniedBefore + 1, MaxDeniedCounted) ELSE 0,
              row |-> DeniedBefore]
  /\ UNCHANGED now

\* performThrowOrCatchAction called by the tap listener
tapCounted ==
  /\ lastTapActionTimestamp' =
       IF Debounced(now, lastTapActionTimestamp) THEN lastTapActionTimestamp ELSE now
  /\ watchEntity' =
       IF Debounced(now, lastTapActionTimestamp) THEN watchEntity
       ELSE actOn(watchEntity, now).entity
  /\ timers' =
       IF Debounced(now, lastTapActionTimestamp) THEN timers
       ELSE timers \cup actOn(watchEntity, now).scheduled
  /\ last' = [op |-> "tap",
              at |-> now,
              denied |-> IF Debounced(now, lastTapActionTimestamp)
                         THEN Min(DeniedBefore + 1, MaxDeniedCounted) ELSE 0,
              row |-> DeniedBefore]
  /\ UNCHANGED now

NextStream ==
  \/ tapCounted
  \/ armDirectionListener(FP, 0)
  \/ \E t \in timers : timerFires(t)
  \/ \E d \in ScenarioSteps : now + d <= ScenarioEnd /\ timePasses(d)
  \/ \E v \in ScenarioLookaheadChoices : setLookaheadDelayMs(v)

SpecStream == InitScenario /\ [][NextStream]_vars

\* C33: a call less than TAP_ACTION_DEBOUNCE_MS after the last allowed action
\* changes no state, the debounce clock included; a call at least
\* TAP_ACTION_DEBOUNCE_MS after the last allowed action passes the gate,
\* however many denied calls came in between.
C33_DeniedActionChangesNothing ==
  [][(last' # last /\ last'.op = "tap")
     => /\ now - lastTapActionTimestamp < TAP_ACTION_DEBOUNCE_MS
           => /\ watchEntity' = watchEntity
              /\ lastTapActionTimestamp' = lastTapActionTimestamp
              /\ timers' = timers
        /\ now - lastTapActionTimestamp >= TAP_ACTION_DEBOUNCE_MS
           => /\ lastTapActionTimestamp' = now
              /\ watchEntity'.LastTapTime = now]_vars

\* a call passed the gate TAP_ACTION_DEBOUNCE_MS after the last allowed
\* action, after a row of denied calls less than that apart
C33_Witness ==
  /\ last.op = "tap"
  /\ last.row = MaxDeniedCounted
  /\ last.denied = 0
  /\ lastTapActionTimestamp = last.at
  /\ watchEntity.LastTapTime = last.at
  /\ now = last.at

\* ------------------------------------------- ignored actions and the gate
\* a step in which an action passed the gate (LastTapTime is written) while
\* the throw was Pending
IgnoredWhilePending ==
  watchEntity.IsThrowPending /\ watchEntity'.LastTapTime # watchEntity.LastTapTime
\* a step in which an action caught the Flying object
CatchStep ==
  /\ watchEntity.IsThrown /\ ~watchEntity'.IsThrown
  /\ watchEntity'.LastTapTime # watchEntity.LastTapTime

\* C32: an action that passes the gate and is ignored because a throw is
\* Pending sets the debounce clock to its time; a catch happens only
\* TAP_ACTION_DEBOUNCE_MS or more after the last action that passed the gate,
\* ignored ones included, also when the throw has become Flying meanwhile.
C32_IgnoredActionRestartsInterval ==
  [][/\ IgnoredWhilePending
        => /\ lastTapActionTimestamp' = now
           /\ watchEntity'.LastTapTime = now
           /\ watchEntity'.IsThrowPending /\ ~watchEntity'.IsThrown
     /\ CatchStep => now - watchEntity.LastTapTime >= TAP_ACTION_DEBOUNCE_MS]_vars

\* the deferred action made the object Flying at the instant an action was
\* ignored: the gate is closed for a catch
C32_Witness ==
  /\ last = [op |-> "timer", outcome |-> "thrown"]
  /\ watchEntity.IsThrown /\ watchEntity.MouseVelocity # ZeroVec
  /\ lastTapActionTimestamp = now
  /\ watchEntity.LastTapTime = lastTapActionTimestamp
  /\ Debounced(now, lastTapActionTimestamp)

\* ------------------------------------------------- the cached direction
\* C39: ArmDirection, once set, is never cleared, and a commit on an object
\* that has an ArmDirection never aborts: a commit aborts only while no
\* direction has ever been received.
C39_CachedDirectionKept ==
  [][/\ ~watchEntity.ArmDirection.isNull => ~watchEntity'.ArmDirection.isNull
     /\ (ImmediateCommit /\ ~watchEntity.ArmDirection.isNull) => watchEntity'.IsThrown
     /\ \A t \in timers :
          (DeferredCommit(t) /\ ~watchEntity.ArmDirection.isNull) => watchEntity'.IsThrown
     /\ (ImmediateCommit /\ ~watchEntity'.IsThrown)
        => (watchEntity.ArmDirection.isNull /\ watchEntity.ArmDirectionHistory = <<>>)
     /\ \A t \in timers :
          (DeferredCommit(t) /\ ~watchEntity'.IsThrown)
          => (watchEntity.ArmDirection.isNull /\ watchEntity.ArmDirectionHistory = <<>>)]_vars

\* a deferred commit whose window held no sample threw the object along the
\* cached direction
C39_Witness ==
  /\ last = [op |-> "timer", outcome |-> "thrown"]
  /\ watchEntity.IsThrown
  /\ ~watchEntity.ArmDirection.isNull
  /\ watchEntity.ArmDirectionHistory # <<>>
  /\ \A i \in 1..Len(watchEntity.ArmDirectionHistory) :
       watchEntity.ArmDirectionHistory[i].timestamp
         < watchEntity.LastTapTime - watchEntity.ConfigurableThrowWindowMs
  /\ watchEntity.MouseVelocity
       = [x |-> watchEntity.ArmDirection.x * watchEntity.ConfigurableThrowStrength,
          y |-> watchEntity.ArmDirection.y * watchEntity.ConfigurableThrowStrength]

\* ------------------------------------------------- a flight left to itself
\* a Flying object that receives frame ticks and nothing else
\* useFrame delta, ms: a 60 Hz frame and a slow frame; the largest friction
\* factor times the slow frame is 0.6
FlightDeltaChoices == {16, 100}
\* px/s
FlightVelocities ==
  {ZeroVec,
   [x |-> 100 * FP, y |-> 0],
   [x |-> 0 - 30 * FP, y |-> 40 * FP],
   [x |-> 4 * FP, y |-> 3 * FP]}
FlightPositions ==
  {[x |-> (InnerWidth * FP) \div 2, y |-> (InnerHeight * FP) \div 2],
   [x |-> BOUNDARY_PADDING * FP, y |-> (InnerHeight - BOUNDARY_PADDING) * FP]}
FlightEntities ==
  {w \in TickEntities :
     /\ w.IsThrown
     /\ w.MousePosition \in FlightPositions
     /\ w.MouseVelocity \in FlightVelocities}

InitFlight ==
  /\ watchEntity \in UNION {{[w EXCEPT !.MouseContinuingAngularVelocity = a] :
                                a \in TickSpins(w.ThrowPathPlan)} : w \in FlightEntities}
  /\ lastTapActionTimestamp = StartTime
  /\ timers = {}
  /\ now = StartTime
  /\ last = [op |-> "init", outcome |-> "none"]

NextFlight == \E d \in FlightDeltaChoices : frameTick(d)

\* ENABLED <<NextFlight>>_vars as a state predicate: some tick changes the
\* entity (a tick changes nothing else)
TickEnabled ==
  \E d \in FlightDeltaChoices : useFrameTick(watchEntity, d) # watchEntity
\* the render loop calls the useFrame callback on every frame: weak fairness
\* of the tick, WF_vars(NextFlight), with its ENABLED written out
FairTicks == []<>(~TickEnabled) \/ []<><<NextFlight>>_vars

SpecFlight == InitFlight /\ [][NextFlight]_vars /\ FairTicks

\* C37: under ticks with 0 < delta and friction factor * delta < 1 and no
\* tap or flick, a Flying object eventually is Idle, at rest, whether or not
\* it has a plan or an exit spin.
C37_FlightEnds ==
  watchEntity.IsThrown
    ~> (/\ ~watchEntity.IsThrown /\ ~watchEntity.IsThrowPending
        /\ watchEntity.MouseVelocity = ZeroVec)

\* a flight that played its plan to the end and turned under its exit spin
\* came to rest away from where it started
C37_Witness ==
  /\ ~watchEntity.IsThrown /\ ~watchEntity.IsThrowPending
  /\ watchEntity.MouseVelocity = ZeroVec
  /\ watchEntity.EnableCurveball
  /\ Len(watchEntity.ThrowPathPlan.segments) > 0
  /\ watchEntity.ThrowPathPlan.currentIndex = Len(watchEntity.ThrowPathPlan.segments)
  /\ watchEntity.MouseContinuingAngularVelocity # 0
  /\ watchEntity.MouseContinuingAngularVelocity # watchEntity.ThrowPathPlan.endingAngularVelocity
  /\ watchEntity.MousePosition \notin FlightPositions
====
